---- MODULE Spec2Model ----
(***************************************************************************)
(* Model of the backup / restore subsystem of koishi-plugin-dev-tool       *)
(* (src/src/backup.ts, class BackupService).                               *)
(*                                                                         *)
(* Strings are sequences of one-character strings, so that the file-name   *)
(* templates, the regular expressions and the timestamp / ISO-8601         *)
(* formatting of the code are computed character by character.             *)
(***************************************************************************)
EXTENDS Integers, Sequences, FiniteSets, TLC

VARIABLES
    config,   \* this.config: singleFile, keepBackups, tables
    db,       \* the datastore: live table -> rows
    dir,      \* the backup directory: file name -> content
    clock,    \* index of the instant of the latest backup run, 0 before any
    budget,   \* operations and injected failures the behaviour may still take
    last,     \* what the last operation did and returned
    hist,     \* the initial file names and the backup runs so far
    codec,    \* the serialize / parse pipeline of the codec specification
    sched,    \* this.backupTimer, the hours passed and the periodic runs
    stamp     \* the instants and the zone of the timestamp specification

vars == <<config, db, dir, clock, budget, last, hist, codec, sched, stamp>>

mainVars == <<config, db, dir, clock, budget, last, hist, sched, stamp>>

(***************************************************************************)
(* Character and string helpers (JavaScript String built-ins).             *)
(***************************************************************************)
DigitChars == <<"0", "1", "2", "3", "4", "5", "6", "7", "8", "9">>

IsDigit(c) == \E i \in 1..10 : DigitChars[i] = c

DigitOf(c) == (CHOOSE i \in 1..10 : DigitChars[i] = c) - 1

\* String(n) for an integer n >= 0
RECURSIVE DecStr(_)
DecStr(n) == IF n < 10 THEN <<DigitChars[n + 1]>>
             ELSE DecStr(n \div 10) \o <<DigitChars[(n % 10) + 1]>>

\* s.padStart(w, '0'): pads on the left, never truncates
RECURSIVE PadStart(_, _)
PadStart(s, w) == IF Len(s) >= w THEN s ELSE PadStart(<<"0">> \o s, w)

\* the number written by the digits of s (s all digits, possibly empty)
RECURSIVE NumOf(_)
NumOf(s) == IF s = <<>> THEN 0
            ELSE 10 * NumOf(SubSeq(s, 1, Len(s) - 1)) + DigitOf(s[Len(s)])

AllDigits(s) == \A i \in 1..Len(s) : IsDigit(s[i])

\* s.startsWith(p)
StartsWith(s, p) == Len(s) >= Len(p) /\ SubSeq(s, 1, Len(p)) = p

\* s ends with p (the tail `p$` of a regular expression)
EndsWith(s, p) == Len(s) >= Len(p) /\ SubSeq(s, Len(s) - Len(p) + 1, Len(s)) = p

\* String.prototype.toLowerCase on the alphabet of the model
ToLowerChar(c) == CASE c = "U" -> "u"
                    [] c = "C" -> "c"
                    [] OTHER -> c

ToLowerCase(s) == [i \in 1..Len(s) |-> ToLowerChar(s[i])]

\* Range of a sequence
Range(s) == {s[i] : i \in 1..Len(s)}

(***************************************************************************)
(* Values of row fields, and their JSON images.                            *)
(*   a Date is its day number since 1970-01-01 (UTC) and its millisecond   *)
(*   of that day; an Invalid Date is "nandate".                            *)
(***************************************************************************)
DateV(d, ms) == [t |-> "date", a |-> d, b |-> ms, s |-> <<>>]

InvalidDate == [t |-> "nandate", a |-> 0, b |-> 0, s |-> <<>>]

StrV(s) == [t |-> "str", a |-> 0, b |-> 0, s |-> s]

NumV(n) == [t |-> "num", a |-> n, b |-> 0, s |-> <<>>]

NullV == [t |-> "null", a |-> 0, b |-> 0, s |-> <<>>]

\* civil date (proleptic Gregorian, UTC) of a day number: YearFromTime,
\* MonthFromTime, DateFromTime of ECMA-262, computed era by era of 400 years;
\* mp counts the months from March
CivilFromMonth(era, yoe, doy, mp) ==
    [year |-> yoe + era * 400 + (IF mp >= 10 THEN 1 ELSE 0),
     month |-> IF mp < 10 THEN mp + 3 ELSE mp - 9,
     day |-> doy - (153 * mp + 2) \div 5 + 1]

CivilFromDayOfYear(era, yoe, doy) ==
    CivilFromMonth(era, yoe, doy, (5 * doy + 2) \div 153)

CivilFromYearOfEra(era, doe, yoe) ==
    CivilFromDayOfYear(era, yoe, doe - (365 * yoe + yoe \div 4 - yoe \div 100))

CivilFromDayOfEra(era, doe) ==
    CivilFromYearOfEra(era, doe,
        (doe - doe \div 1460 + doe \div 36524 - doe \div 146096) \div 365)

CivilFromShiftedDays(z) == CivilFromDayOfEra(z \div 146097, z % 146097)

CivilFromDays(days) == CivilFromShiftedDays(days + 719468)

\* MakeDay of ECMA-262: day number of a civil date; a day beyond the end of
\* the month runs into the next month
DaysFromShiftedYear(yy, m, d) ==
    (yy \div 400) * 146097
    + (yy % 400) * 365 + (yy % 400) \div 4 - (yy % 400) \div 100
    + (153 * (IF m > 2 THEN m - 3 ELSE m + 9) + 2) \div 5 + d - 1
    - 719468

DaysFromCivil(y, m, d) == DaysFromShiftedYear(IF m <= 2 THEN y - 1 ELSE y, m, d)

\* the year of toISOString: YYYY, and the expanded year +YYYYYY / -YYYYYY
\* outside 0..9999
IsoYear(year) ==
    IF year >= 0 /\ year <= 9999 THEN PadStart(DecStr(year), 4)
    ELSE <<IF year < 0 THEN "-" ELSE "+">> \o
         PadStart(DecStr(IF year < 0 THEN 0 - year ELSE year), 6)

IsoOfCivil(c, ms) ==
    IsoYear(c.year) \o <<"-">> \o PadStart(DecStr(c.month), 2)
            \o <<"-">> \o PadStart(DecStr(c.day), 2)
            \o <<"T">> \o PadStart(DecStr(ms \div 3600000), 2)
            \o <<":">> \o PadStart(DecStr((ms % 3600000) \div 60000), 2)
            \o <<":">> \o PadStart(DecStr((ms % 60000) \div 1000), 2)
            \o <<".">> \o PadStart(DecStr(ms % 1000), 3)
            \o <<"Z">>

\* Date.prototype.toISOString for a valid date: YYYY-MM-DDTHH:mm:ss.sssZ
DateToISOString(d, ms) == IsoOfCivil(CivilFromDays(d), ms)

\* JSON.stringify of one field value: a Date goes through Date.prototype.toJSON
\* (toISOString, or null for an Invalid Date); strings, numbers and null are
\* written as themselves
StringifyValue(v) ==
    CASE v.t = "date" -> StrV(DateToISOString(v.a, v.b))
      [] v.t = "nandate" -> NullV
      [] OTHER -> v

\* /^\d{4}-\d{2}-\d{2}T\d{2}:\d{2}:\d{2}.\d{3}Z$/.test(s); the `.` before the
\* milliseconds is unescaped in the source and matches any character
DigitPositions == {1, 2, 3, 4, 6, 7, 9, 10, 12, 13, 15, 16, 18, 19, 21, 22, 23}

DatePatternTest(s) ==
    /\ Len(s) = 24
    /\ \A i \in DigitPositions : IsDigit(s[i])
    /\ s[5] = "-" /\ s[8] = "-" /\ s[11] = "T"
    /\ s[14] = ":" /\ s[17] = ":" /\ s[24] = "Z"

\* new Date(s) for a string that passed DatePatternTest (V8): month 1..12,
\* day 1..31, hour 0..24 (24 only as 24:00:00.000), minute and second 0..59;
\* anything else, and any separator other than `.`, gives an Invalid Date
DateOfFields(s, y, mo, d, h, mi, se, ms) ==
    IF ~( /\ s[20] = "."
          /\ mo >= 1 /\ mo <= 12 /\ d >= 1 /\ d <= 31
          /\ mi <= 59 /\ se <= 59
          /\ (h <= 23 \/ (h = 24 /\ mi = 0 /\ se = 0 /\ ms = 0)) )
    THEN InvalidDate
    ELSE IF h = 24 THEN DateV(DaysFromCivil(y, mo, d) + 1, 0)
    ELSE DateV(DaysFromCivil(y, mo, d),
               h * 3600000 + mi * 60000 + se * 1000 + ms)

DateParse(s) ==
    DateOfFields(s, NumOf(SubSeq(s, 1, 4)), NumOf(SubSeq(s, 6, 7)),
                 NumOf(SubSeq(s, 9, 10)), NumOf(SubSeq(s, 12, 13)),
                 NumOf(SubSeq(s, 15, 16)), NumOf(SubSeq(s, 18, 19)),
                 NumOf(SubSeq(s, 21, 23)))

\* the reviver of parseJSONWithDates, applied to one parsed value
ReviveValue(v) ==
    IF v.t = "str" /\ DatePatternTest(v.s) THEN DateParse(v.s) ELSE v

\* a row is a primary key and one field
StringifyRow(r) == [id |-> r.id, v |-> StringifyValue(r.v)]

ReviveRow(r) == [id |-> r.id, v |-> ReviveValue(r.v)]

\* JSON.stringify(rows, null, 2) of an array of rows, as the JSON value written
StringifyRows(rows) == [i \in 1..Len(rows) |-> StringifyRow(rows[i])]

\* parseJSONWithDates of the text of an array of rows
ParseRowsWithDates(json) == [i \in 1..Len(json) |-> ReviveRow(json[i])]

(***************************************************************************)
(* Bounds of the model.                                                    *)
(***************************************************************************)
\* operations (backup, restore, external database write) in one behaviour
\* without failures
MaxOps == 3

\* operations in one behaviour with failures
MaxFaultyOps == 2

\* injected failures of the datastore or the file system in one behaviour
MaxFaults == 1

\* instants the clock can show; a backup run happens at the instant of the
\* run before it or at the next one
MaxTime == 3

\* greatest value of config.keepBackups
MaxKeep == 2

\* day number of the first instant of the clock (2024-12-31)
BaseDay == DaysFromCivil(2024, 12, 31)

(***************************************************************************)
(* Names.                                                                  *)
(***************************************************************************)
BackupPrefix == <<"b", "a", "c", "k", "u", "p", "_">>

JsonSuffix == <<".", "j", "s", "o", "n">>

Ta == <<"a">>

Tb == <<"b">>

Tc == <<"c">>

TUser == <<"U">>

Tuser == <<"u">>

TChannel == <<"C">>

Tx == <<"x">>

(***************************************************************************)
(* getTimestamp: local time of the instant, YYYYMMDD_HHMMSS.  The host's   *)
(* time zone is UTC.                                                       *)
(***************************************************************************)
\* the i-th instant of the clock: two per day, at 12:00:00 and 13:01:01
InstantAt(i) == [day |-> BaseDay + (i - 1) \div 2,
                 sec |-> 43200 + ((i - 1) % 2) * 3661]

TimestampOfCivil(c, sec) ==
    DecStr(c.year) \o PadStart(DecStr(c.month), 2)
          \o PadStart(DecStr(c.day), 2) \o <<"_">>
          \o PadStart(DecStr(sec \div 3600), 2)
          \o PadStart(DecStr((sec % 3600) \div 60), 2)
          \o PadStart(DecStr(sec % 60), 2)

getTimestamp(now) == TimestampOfCivil(CivilFromDays(now.day), now.sec)

\* `backup_${timestamp}.json`
SingleFileName(timestamp) == BackupPrefix \o timestamp \o JsonSuffix

\* `backup_${timestamp}_${table}.json`
TableFileName(timestamp, table) ==
    BackupPrefix \o timestamp \o <<"_">> \o table \o JsonSuffix

(***************************************************************************)
(* The regular expressions of listBackups and restoreBackup.               *)
(***************************************************************************)
\* number of digits of s from position i on, up to the first character that
\* is not a digit (greedy \d+)
RECURSIVE DigitRunFrom(_, _)
DigitRunFrom(s, i) ==
    IF i > Len(s) \/ ~IsDigit(s[i]) THEN 0 ELSE 1 + DigitRunFrom(s, i + 1)

DigitRun(s) == DigitRunFrom(s, 1)

\* /^backup_(\d+)\.json$/ : whether it matches, and group 1
SingleFileMatch(file) ==
    LET rest == SubSeq(file, Len(BackupPrefix) + 1, Len(file))
        k == DigitRun(rest)
    IN IF StartsWith(file, BackupPrefix) /\ k >= 1
          /\ SubSeq(rest, k + 1, Len(rest)) = JsonSuffix
       THEN [ok |-> TRUE, timestamp |-> SubSeq(rest, 1, k)]
       ELSE [ok |-> FALSE, timestamp |-> <<>>]

\* /^backup_(\d+)_(.+)\.json$/ : whether it matches, and groups 1 and 2
TableFileMatch(file) ==
    LET rest == SubSeq(file, Len(BackupPrefix) + 1, Len(file))
        k == DigitRun(rest)
    IN IF StartsWith(file, BackupPrefix) /\ k >= 1
          /\ Len(rest) >= k + 2 + Len(JsonSuffix)
          /\ rest[k + 1] = "_"
          /\ EndsWith(rest, JsonSuffix)
       THEN [ok |-> TRUE, timestamp |-> SubSeq(rest, 1, k),
             table |-> SubSeq(rest, k + 2, Len(rest) - Len(JsonSuffix))]
       ELSE [ok |-> FALSE, timestamp |-> <<>>, table |-> <<>>]

\* new RegExp(`^backup_${timestamp}_(.+)\\.json$`) for a timestamp of digits
TimestampFileMatch(timestamp, file) ==
    LET p == BackupPrefix \o timestamp \o <<"_">>
    IN /\ StartsWith(file, p)
       /\ EndsWith(file, JsonSuffix)
       /\ Len(file) >= Len(p) + 1 + Len(JsonSuffix)

(***************************************************************************)
(* String.prototype.localeCompare (root collation) on the alphabet of the  *)
(* model: punctuation before digits before letters, `_` before `.`, and    *)
(* between strings equal up to case the lower-case one first.              *)
(***************************************************************************)
Letters == <<"a", "b", "c", "d", "e", "f", "g", "h", "i", "j", "k", "l", "m",
             "n", "o", "p", "q", "r", "s", "t", "u", "v", "w", "x", "y", "z">>

Alphabet == {"_", "."} \cup Range(DigitChars) \cup Range(Letters) \cup {"U", "C"}

\* primary weight of a character
CollationRank ==
    [c \in Alphabet |->
        CASE c = "_" -> 0
          [] c = "." -> 1
          [] IsDigit(c) -> 2 + DigitOf(c)
          [] OTHER -> 11 + (CHOOSE i \in 1..26 : Letters[i] = ToLowerChar(c))]

\* tertiary weight of a character: lower case before upper case
CaseRank == [c \in Alphabet |-> IF ToLowerChar(c) = c THEN 0 ELSE 1]

\* compares x and y by the weights W from position i on: -1, 0 or 1; a
\* string sorts after its proper prefixes
RECURSIVE CompareFrom(_, _, _, _)
CompareFrom(W, x, y, i) ==
    IF i > Len(x) THEN (IF i > Len(y) THEN 0 ELSE -1)
    ELSE IF i > Len(y) THEN 1
    ELSE IF W[x[i]] < W[y[i]] THEN -1
    ELSE IF W[x[i]] > W[y[i]] THEN 1
    ELSE CompareFrom(W, x, y, i + 1)

localeCompare(x, y) ==
    LET p == CompareFrom(CollationRank, x, y, 1)
    IN IF p # 0 THEN p ELSE CompareFrom(CaseRank, x, y, 1)

\* x put at its place in a sequence sorted by (a, b) => b.localeCompare(a)
RECURSIVE InsertDescending(_, _)
InsertDescending(sorted, x) ==
    IF sorted = <<>> THEN <<x>>
    ELSE IF localeCompare(x, Head(sorted)) > 0 THEN <<x>> \o sorted
    ELSE <<Head(sorted)>> \o InsertDescending(Tail(sorted), x)

\* the list as it is, without the sort
KeepOrder(list) == list

\* list.sort((a, b) => b.localeCompare(a)) for a list of distinct strings
RECURSIVE SortDescending(_)
SortDescending(list) ==
    IF list = <<>> THEN <<>>
    ELSE InsertDescending(SortDescending(Tail(list)), Head(list))

\* the elements of a set, one after the other
RECURSIVE SeqOfSet(_)
SeqOfSet(S) ==
    IF S = {} THEN <<>>
    ELSE LET x == CHOOSE y \in S : TRUE IN <<x>> \o SeqOfSet(S \ {x})

\* fs.readdir(config.dir): the names of the directory, in the order of the
\* file system, which the model fixes but no formula relies on
readdir(d) == SeqOfSet(DOMAIN d)

(***************************************************************************)
(* The datastore (ctx.database) and the rows of the model.                 *)
(*   db : live table name -> rows, in the order get returns them.          *)
(*   A set F of fault points names the calls of the environment that fail  *)
(*   during one operation: <<kind, name>>.                                 *)
(***************************************************************************)
Row1 == [id |-> 1, v |-> DateV(BaseDay, 43200123)]

Row1Changed == [id |-> 1, v |-> StrV(<<"h", "i">>)]

Row2 == [id |-> 2, v |-> NumV(7)]

\* ctx.database.stats(): Object.keys(dbStats.tables)
existingTablesOf(dbv) == SeqOfSet(DOMAIN dbv)

\* ctx.database.get(table, {}) throws for a table the datastore does not
\* have, or when the call fails
GetFails(dbv, table, F) == table \notin DOMAIN dbv \/ <<"get", table>> \in F

\* a row added whether or not its primary key is there (insert)
InsertRow(rows, r) == Append(rows, r)

\* one row of ctx.database.upsert: update the row with the same primary
\* key, insert it when there is none
UpsertRow(rows, r) ==
    IF \E i \in 1..Len(rows) : rows[i].id = r.id
    THEN [i \in 1..Len(rows) |-> IF rows[i].id = r.id THEN r ELSE rows[i]]
    ELSE Append(rows, r)

RECURSIVE UpsertRows(_, _)
UpsertRows(rows, data) ==
    IF data = <<>> THEN rows
    ELSE UpsertRows(UpsertRow(rows, Head(data)), Tail(data))

UpsertFails(dbv, table, F) == table \notin DOMAIN dbv \/ <<"upsert", table>> \in F

\* ctx.database.upsert(table, data) when it does not throw
Upsert(dbv, table, data) == [dbv EXCEPT ![table] = UpsertRows(@, data)]

(***************************************************************************)
(* Files: dir maps each file name of config.dir to its content, the JSON   *)
(* value written: an object (entries: key and rows, in insertion order),   *)
(* an array of rows, or text that is not JSON.  scalars are the keys of an *)
(* object whose value is not an array; the program writes none.            *)
(***************************************************************************)
ObjectContent(entries) ==
    [kind |-> "object", entries |-> entries, rows |-> <<>>, scalars |-> {}]

ArrayContent(rows) ==
    [kind |-> "array", entries |-> <<>>, rows |-> rows, scalars |-> {}]

TextContent == [kind |-> "text", entries |-> <<>>, rows |-> <<>>, scalars |-> {}]

\* allData[table] = rows on a plain object: replaces the value of an
\* existing key, appends a new key
ObjectSet(entries, key, rows) ==
    IF \E i \in 1..Len(entries) : entries[i].key = key
    THEN [i \in 1..Len(entries) |->
             IF entries[i].key = key THEN [key |-> key, rows |-> rows] ELSE entries[i]]
    ELSE Append(entries, [key |-> key, rows |-> rows])

\* fs.writeFile(path, text): creates the file or replaces its content
WriteFile(d, file, content) ==
    [f \in DOMAIN d \cup {file} |-> IF f = file THEN content ELSE d[f]]

\* fs.unlink(path)
Unlink(d, file) == [f \in DOMAIN d \ {file} |-> d[f]]

WriteFails(file, F) == <<"write", file>> \in F

ReadFails(d, file, F) == file \notin DOMAIN d \/ <<"read", file>> \in F

(***************************************************************************)
(* getTablesForBackup                                                      *)
(***************************************************************************)
MatchesSomeTable(existingTables, table) ==
    \E i \in 1..Len(existingTables) :
        ToLowerCase(existingTables[i]) = ToLowerCase(table)

\* existingTables.find(t => t.toLowerCase() === customTable.toLowerCase())
FindTable(existingTables, customTable) ==
    existingTables[CHOOSE i \in 1..Len(existingTables) :
        /\ ToLowerCase(existingTables[i]) = ToLowerCase(customTable)
        /\ \A j \in 1..(i - 1) :
              ToLowerCase(existingTables[j]) # ToLowerCase(customTable)]

\* Set.prototype.add on a set kept in insertion order
SetAdd(all, x) == IF x \in Range(all) THEN all ELSE Append(all, x)

AddSpecialLiteral(all, existingTables, customTable) == SetAdd(all, customTable)

\* a special table that matches no live table left out
AddSpecialMatchedOnly(all, existingTables, customTable) ==
    IF MatchesSomeTable(existingTables, customTable)
    THEN SetAdd(all, FindTable(existingTables, customTable))
    ELSE all

\* matchedTable ? allTables.add(matchedTable) : allTables.add(customTable)
AddSpecial(all, existingTables, customTable) ==
    IF MatchesSomeTable(existingTables, customTable)
    THEN SetAdd(all, FindTable(existingTables, customTable))
    ELSE SetAdd(all, customTable)

RECURSIVE AddSpecials(_, _, _)
AddSpecials(all, existingTables, customTables) ==
    IF customTables = <<>> THEN all
    ELSE AddSpecials(AddSpecial(all, existingTables, Head(customTables)),
                     existingTables, Tail(customTables))

\* the list, were the special tables added to an explicit subset as well
TablesFromSubsetAndSpecials(existingTables, cfg, specificTables) ==
    IF specificTables # <<>>
    THEN AddSpecials(SelectSeq(specificTables,
                               LAMBDA t : MatchesSomeTable(existingTables, t)),
                     existingTables, cfg.tables)
    ELSE AddSpecials(existingTables, existingTables, cfg.tables)

\* the list returned when stats() does not throw
TablesFrom(existingTables, cfg, specificTables) ==
    IF specificTables # <<>>
    THEN SelectSeq(specificTables, LAMBDA t : MatchesSomeTable(existingTables, t))
    ELSE AddSpecials(existingTables, existingTables, cfg.tables)

getTablesForBackup(dbv, cfg, specificTables) ==
    TablesFrom(existingTablesOf(dbv), cfg, specificTables)

(***************************************************************************)
(* backupTables                                                            *)
(***************************************************************************)
NoFiles == [f \in {} |-> TextContent]

\* the value of allData[table] when the fetch of the table fails
FetchFailedKeepsEmpty(acc, table) ==
    [acc EXCEPT !.allData = ObjectSet(@, table, <<>>),
                !.failedTables = Append(@, table)]

FetchFailed(acc, table) == [acc EXCEPT !.failedTables = Append(@, table)]

\* the loop of the single-file branch: acc is allData, successCount, failedTables
RECURSIVE FetchAll(_, _, _, _)
FetchAll(dbv, tables, F, acc) ==
    IF tables = <<>> THEN acc
    ELSE LET table == Head(tables)
         IN FetchAll(dbv, Tail(tables), F,
                IF GetFails(dbv, table, F)
                THEN FetchFailed(acc, table)
                ELSE [acc EXCEPT !.allData = ObjectSet(@, table, dbv[table]),
                                 !.successCount = @ + 1])

\* JSON.stringify(allData, null, 2)
StringifyObject(allData) ==
    ObjectContent([i \in 1..Len(allData) |->
        [key |-> allData[i].key, rows |-> StringifyRows(allData[i].rows)]])

\* fs.writeFile of the single file and the result of the branch; r is what
\* the loop left
WriteSingleFile(d, fileName, content, r, F) ==
    IF WriteFails(fileName, F)
    THEN [thrown |-> TRUE, dir |-> d, ok |-> r.successCount,
          failed |-> r.failedTables, wrote |-> NoFiles]
    ELSE [thrown |-> FALSE, dir |-> WriteFile(d, fileName, content),
          ok |-> r.successCount, failed |-> r.failedTables,
          wrote |-> WriteFile(NoFiles, fileName, content)]

StringifyAndWrite(d, fileName, r, F) ==
    WriteSingleFile(d, fileName, StringifyObject(r.allData), r, F)

backupSingleFile(dbv, d, tables, timestamp, F) ==
    StringifyAndWrite(d, SingleFileName(timestamp),
        FetchAll(dbv, tables, F,
            [allData |-> <<>>, successCount |-> 0, failedTables |-> <<>>]),
        F)

\* the loop of the multi-file branch: acc is the directory, the files written
\* (successFiles) and failedTables
RECURSIVE BackupEach(_, _, _, _, _)
BackupEach(dbv, tables, timestamp, F, acc) ==
    IF tables = <<>> THEN acc
    ELSE LET table == Head(tables)
             fileName == TableFileName(timestamp, table)
         IN BackupEach(dbv, Tail(tables), timestamp, F,
                IF GetFails(dbv, table, F) \/ WriteFails(fileName, F)
                THEN [acc EXCEPT !.failedTables = Append(@, table)]
                ELSE [acc EXCEPT
                        !.dir = WriteFile(@, fileName,
                                    ArrayContent(StringifyRows(dbv[table]))),
                        !.successFiles = Append(@, fileName),
                        !.wrote = WriteFile(@, fileName,
                                    ArrayContent(StringifyRows(dbv[table])))])

MultiFileResult(r) ==
    [thrown |-> FALSE, dir |-> r.dir, ok |-> Len(r.successFiles),
     failed |-> r.failedTables, wrote |-> r.wrote]

backupMultiFile(dbv, d, tables, timestamp, F) ==
    MultiFileResult(BackupEach(dbv, tables, timestamp, F,
        [dir |-> d, successFiles |-> <<>>, failedTables |-> <<>>,
         wrote |-> NoFiles]))

backupTables(dbv, d, cfg, tables, timestamp, F) ==
    IF cfg.singleFile
    THEN backupSingleFile(dbv, d, tables, timestamp, F)
    ELSE backupMultiFile(dbv, d, tables, timestamp, F)

(***************************************************************************)
(* cleanupOldBackups                                                       *)
(***************************************************************************)
\* the unlink loop: a failing unlink throws out of the loop, and the catch
\* of cleanupOldBackups ends the sweep
RECURSIVE UnlinkAll(_, _, _, _)
UnlinkAll(d, files, F, deleted) ==
    IF files = <<>> \/ <<"unlink", Head(files)>> \in F
    THEN [dir |-> d, deleted |-> deleted]
    ELSE UnlinkAll(Unlink(d, Head(files)), Tail(files), F, deleted \cup {Head(files)})

\* the loop over backupFiles from index keepCount on
UnlinkBeyond(d, backupFiles, keepCount, F) ==
    IF Len(backupFiles) > keepCount
    THEN UnlinkAll(d, SubSeq(backupFiles, keepCount + 1, Len(backupFiles)), F, {})
    ELSE [dir |-> d, deleted |-> {}]

\* the empty pattern, with which every name starts
CleanupAnyName(cfg) == <<>>

\* both arms of the source's choice of the pattern are 'backup_'
CleanupPattern(cfg) == IF cfg.singleFile THEN BackupPrefix ELSE BackupPrefix

cleanupOldBackups(d, cfg, keepCount, F) ==
    IF keepCount = 0 \/ <<"readdir", <<>>>> \in F
    THEN [dir |-> d, deleted |-> {}]
    ELSE UnlinkBeyond(d,
             SortDescending(SelectSeq(readdir(d),
                 LAMBDA f : StartsWith(f, CleanupPattern(cfg)))),
             keepCount, F)

(***************************************************************************)
(* performBackup: the directory after the call and what the call did.      *)
(*   msg: "failed" (备份失败), "notables" (无可备份表), "done" (备份完成)  *)
(***************************************************************************)
BackupOutcome(d, msg, tables, r, swept, before, deleted) ==
    [dir |-> d, msg |-> msg, tables |-> tables, ok |-> r.ok, failed |-> r.failed,
     wrote |-> r.wrote, swept |-> swept, before |-> before, deleted |-> deleted,
     rejected |-> FALSE]

\* an exception leaves the body of the operation with what was done so far
Thrown(outcome) == [outcome EXCEPT !.msg = "none", !.rejected = TRUE]

\* no handler: the exception leaves the operation
Uncaught(outcome) == outcome

\* catch (e) { return `备份失败：${e.message}` } and the same of performRestore
Caught(outcome) == [outcome EXCEPT !.msg = "failed", !.rejected = FALSE]

NothingWritten == [ok |-> 0, failed |-> <<>>, wrote |-> NoFiles]

\* the sweep after the write and the result; r is the result of backupTables
SweepAfter(cfg, tables, r, c) ==
    BackupOutcome(c.dir, "done", tables, r, TRUE, DOMAIN r.dir, c.deleted)

\* a sweep that takes keepBackups = 0 as "keep no file"
BackupWrittenSweepsAlways(d, cfg, tables, r, F) ==
    IF r.thrown
    THEN Caught(Thrown(BackupOutcome(d, "none", tables, r, FALSE, DOMAIN d, {})))
    ELSE SweepAfter(cfg, tables, r,
             UnlinkBeyond(r.dir,
                 SortDescending(SelectSeq(readdir(r.dir),
                     LAMBDA f : StartsWith(f, CleanupPattern(cfg)))),
                 cfg.keepBackups, F))

\* a sweep that also runs when the write has thrown
BackupWrittenSweepsOnFailure(d, cfg, tables, r, F) ==
    IF r.thrown
    THEN Caught(Thrown(BackupOutcome(
             cleanupOldBackups(d, cfg, cfg.keepBackups, F).dir, "none", tables, r,
             cfg.keepBackups > 0, DOMAIN d,
             cleanupOldBackups(d, cfg, cfg.keepBackups, F).deleted)))
    ELSE IF cfg.keepBackups > 0
    THEN SweepAfter(cfg, tables, r,
                    cleanupOldBackups(r.dir, cfg, cfg.keepBackups, F))
    ELSE BackupOutcome(r.dir, "done", tables, r, FALSE, DOMAIN r.dir, {})

BackupWritten(d, cfg, tables, r, F) ==
    IF r.thrown
    THEN Caught(Thrown(BackupOutcome(d, "none", tables, r, FALSE, DOMAIN d, {})))
    ELSE IF cfg.keepBackups > 0
    THEN SweepAfter(cfg, tables, r,
                    cleanupOldBackups(r.dir, cfg, cfg.keepBackups, F))
    ELSE BackupOutcome(r.dir, "done", tables, r, FALSE, DOMAIN r.dir, {})

\* a backup of the tables resolved, even of none
BackupResolvedAlways(dbv, d, cfg, tables, timestamp, F) ==
    BackupWritten(d, cfg, tables,
                  backupTables(dbv, d, cfg, tables, timestamp, F), F)

BackupResolved(dbv, d, cfg, tables, timestamp, F) ==
    IF Len(tables) = 0
    THEN BackupOutcome(d, "notables", tables, NothingWritten, FALSE, DOMAIN d, {})
    ELSE BackupWritten(d, cfg, tables,
                       backupTables(dbv, d, cfg, tables, timestamp, F), F)

performBackup(dbv, d, cfg, specificTables, timestamp, F) ==
    IF <<"mkdir", <<>>>> \in F \/ <<"stats", <<>>>> \in F
    THEN Caught(Thrown(BackupOutcome(d, "none", <<>>, NothingWritten, FALSE,
                                     DOMAIN d, {})))
    ELSE BackupResolved(dbv, d, cfg,
                        getTablesForBackup(dbv, cfg, specificTables), timestamp, F)

(***************************************************************************)
(* listBackups: entries {timestamp, tables}, newest first.                 *)
(***************************************************************************)
\* the tables pushed under one timestamp, in the order of readdir
TablesOfFiles(mine) == [i \in 1..Len(mine) |-> TableFileMatch(mine[i]).table]

TablesOfTimestamp(files, timestamp) ==
    TablesOfFiles(SelectSeq(files, LAMBDA f : TableFileMatch(f).ok
                                       /\ TableFileMatch(f).timestamp = timestamp))

\* the keys of fileMap, in the order of their insertion
RECURSIVE MapKeysFrom(_, _)
MapKeysFrom(files, keys) ==
    IF files = <<>> THEN keys
    ELSE MapKeysFrom(Tail(files),
             IF TableFileMatch(Head(files)).ok
             THEN SetAdd(keys, TableFileMatch(Head(files)).timestamp)
             ELSE keys)

MapKeys(files) == MapKeysFrom(files, <<>>)

\* the single-file branch: one entry for each matching name
SingleEntries(stamps) ==
    [i \in 1..Len(stamps) |-> [timestamp |-> stamps[i], tables |-> <<>>]]

SingleStamps(matching) ==
    [i \in 1..Len(matching) |-> SingleFileMatch(matching[i]).timestamp]

\* the multi-file branch: one entry for each key of fileMap
TableEntries(files, stamps) ==
    [i \in 1..Len(stamps) |->
        [timestamp |-> stamps[i], tables |-> TablesOfTimestamp(files, stamps[i])]]

BackupsOf(files, cfg) ==
    IF cfg.singleFile
    THEN SingleEntries(SortDescending(SingleStamps(
             SelectSeq(files, LAMBDA f : SingleFileMatch(f).ok))))
    ELSE TableEntries(files, SortDescending(MapKeys(files)))

listBackups(d, cfg, F) ==
    IF <<"readdir", <<>>>> \in F THEN <<>> ELSE BackupsOf(readdir(d), cfg)

(***************************************************************************)
(* restoreBackup: the datastore after the call, the list returned, the     *)
(* upserts that completed, and whether the call threw.                     *)
(***************************************************************************)
\* JSON.parse throws on text that is not JSON
ParseFails(content) == content.kind = "text"

\* allData[tableName] of the parsed single file: the revived rows of the key,
\* or "none" when the value is missing or is not an array
EntryRows(content, tableName) ==
    IF content.kind = "object"
       /\ \E i \in 1..Len(content.entries) : content.entries[i].key = tableName
       /\ tableName \notin content.scalars
    THEN [found |-> TRUE,
          rows |-> ParseRowsWithDates(
              content.entries[CHOOSE j \in 1..Len(content.entries) :
                                 content.entries[j].key = tableName].rows)]
    ELSE [found |-> FALSE, rows |-> <<>>]

\* Object.entries(allData) of the parsed single file that pass Array.isArray;
\* the entries of a parsed array are its rows, none of which is an array
EntriesOf(content) ==
    IF content.kind = "object"
    THEN SelectSeq(content.entries, LAMBDA e : e.key \notin content.scalars)
    ELSE <<>>

\* the loops of the single-file branch; acc is db, restored, upserts, thrown.
\* An upsert that throws leaves the loop for the catch of the branch.
\* one turn of the loops: data is the parsed value of the key
RestoreEntry(table, data, F, acc) ==
    IF Len(data) = 0 THEN acc
    ELSE IF UpsertFails(acc.db, table, F)
    THEN [acc EXCEPT !.thrown = TRUE]
    ELSE [acc EXCEPT !.db = Upsert(@, table, data),
                     !.restored = Append(@, table),
                     !.upserts = Append(@, [table |-> table, rows |-> data])]

RECURSIVE RestoreEntries(_, _, _)
RestoreEntries(todo, F, acc) ==
    IF todo = <<>> \/ acc.thrown THEN acc
    ELSE RestoreEntries(Tail(todo), F,
             RestoreEntry(Head(todo).key, ParseRowsWithDates(Head(todo).rows),
                          F, acc))

\* the keys of the file asked for by tableNames, in the order of tableNames
EntriesNamed(content, present) ==
    [i \in 1..Len(present) |->
        [key |-> present[i],
         rows |-> (content.entries[CHOOSE j \in 1..Len(content.entries) :
                       content.entries[j].key = present[i]]).rows]]

RequestedEntries(content, tableNames) ==
    EntriesNamed(content,
                 SelectSeq(tableNames, LAMBDA t : EntryRows(content, t).found))

RestoreStart(dbv) ==
    [db |-> dbv, restored |-> <<>>, upserts |-> <<>>, thrown |-> FALSE]

\* the catch of the single-file branch returns the empty list
CaughtSingleFile(r) ==
    IF r.thrown THEN [r EXCEPT !.restored = <<>>, !.thrown = FALSE] ELSE r

RestoreContent(dbv, content, tableNames, F) ==
    CaughtSingleFile(RestoreEntries(
        IF tableNames # <<>> THEN RequestedEntries(content, tableNames)
        ELSE EntriesOf(content),
        F, RestoreStart(dbv)))

restoreSingleFile(dbv, d, timestamp, tableNames, F) ==
    IF ReadFails(d, SingleFileName(timestamp), F)
       \/ ParseFails(d[SingleFileName(timestamp)])
    THEN RestoreStart(dbv)
    ELSE RestoreContent(dbv, d[SingleFileName(timestamp)], tableNames, F)

\* the body of the try of the multi-file loops for one file and one table
UpsertParsed(tableName, isArray, data, F, acc) ==
    IF isArray /\ Len(data) > 0 /\ ~UpsertFails(acc.db, tableName, F)
    THEN [acc EXCEPT !.db = Upsert(@, tableName, data),
                     !.restored = Append(@, tableName),
                     !.upserts = Append(@, [table |-> tableName, rows |-> data])]
    ELSE acc

\* one file, were a failure to read or parse it to drop what was restored
RestoreOneFileForgetting(d, fileName, tableName, F, acc) ==
    IF ReadFails(d, fileName, F) \/ ParseFails(d[fileName])
    THEN [acc EXCEPT !.restored = <<>>]
    ELSE UpsertParsed(tableName, d[fileName].kind = "array",
                      ParseRowsWithDates(d[fileName].rows), F, acc)

RestoreOneFile(d, fileName, tableName, F, acc) ==
    IF ReadFails(d, fileName, F) \/ ParseFails(d[fileName]) THEN acc
    ELSE UpsertParsed(tableName, d[fileName].kind = "array",
                      ParseRowsWithDates(d[fileName].rows), F, acc)

\* for (const tableName of tableNames)
RECURSIVE RestoreNamed(_, _, _, _, _, _)
RestoreNamed(d, files, timestamp, tableNames, F, acc) ==
    IF tableNames = <<>> THEN acc
    ELSE LET targetFile == TableFileName(timestamp, Head(tableNames))
         IN RestoreNamed(d, files, timestamp, Tail(tableNames), F,
                IF targetFile \in Range(files)
                THEN RestoreOneFile(d, targetFile, Head(tableNames), F, acc)
                ELSE acc)

\* for (const fileName of backupFiles)
RECURSIVE RestoreFiles(_, _, _, _)
RestoreFiles(d, backupFiles, F, acc) ==
    IF backupFiles = <<>> THEN acc
    ELSE LET match == TableFileMatch(Head(backupFiles))
         IN RestoreFiles(d, Tail(backupFiles), F,
                IF match.ok
                THEN RestoreOneFile(d, Head(backupFiles), match.table, F, acc)
                ELSE acc)

RestoreFrom(dbv, d, files, timestamp, tableNames, F) ==
    IF tableNames # <<>>
    THEN RestoreNamed(d, files, timestamp, tableNames, F, RestoreStart(dbv))
    ELSE RestoreFiles(d, SelectSeq(files, LAMBDA f : TimestampFileMatch(timestamp, f)),
                      F, RestoreStart(dbv))

restoreMultiFile(dbv, d, timestamp, tableNames, F) ==
    IF <<"readdir2", <<>>>> \in F
    THEN [RestoreStart(dbv) EXCEPT !.thrown = TRUE]
    ELSE RestoreFrom(dbv, d, readdir(d), timestamp, tableNames, F)

restoreBackup(dbv, d, cfg, backup, tableNames, F) ==
    IF cfg.singleFile
    THEN restoreSingleFile(dbv, d, backup.timestamp, tableNames, F)
    ELSE restoreMultiFile(dbv, d, backup.timestamp, tableNames, F)

(***************************************************************************)
(* performRestore.  msg: "nobackups" (无可用备份), "list" (the catalog),   *)
(* "invalid" (无效序号), "notfound" (未找到备份表), "nodata" (无有效数据), *)
(* "restored" (已恢复...), "failed" (恢复失败).                            *)
(***************************************************************************)
\* parseInt(index): the number written by the leading digits, NaN without any
parseInt(index) ==
    IF DigitRun(index) = 0 THEN [nan |-> TRUE, n |-> 0]
    ELSE [nan |-> FALSE, n |-> NumOf(SubSeq(index, 1, DigitRun(index)))]

NoTarget == [timestamp |-> <<>>, tables |-> <<>>]

RestoreOutcome(dbv, msg, backups, target, restored, upserts) ==
    [db |-> dbv, msg |-> msg, backups |-> backups, target |-> target,
     restored |-> restored, upserts |-> upserts, rejected |-> FALSE]

\* the message for what restoreBackup returned
RestoreReport(tableNames, backups, targetBackup, r) ==
    IF r.thrown
    THEN Caught(Thrown(RestoreOutcome(r.db, "none", backups, targetBackup, <<>>,
                                      r.upserts)))
    ELSE IF Len(r.restored) = 0
    THEN RestoreOutcome(r.db, IF tableNames # <<>> THEN "notfound" ELSE "nodata",
                        backups, targetBackup, r.restored, r.upserts)
    ELSE RestoreOutcome(r.db, "restored", backups, targetBackup,
                        r.restored, r.upserts)

RestoreTarget(dbv, d, cfg, tableNames, F, backups, targetBackup) ==
    RestoreReport(tableNames, backups, targetBackup,
                  restoreBackup(dbv, d, cfg, targetBackup, tableNames, F))

\* an index out of range taken as the index of the first backup
RestoreIndexedClamped(dbv, d, cfg, tableNames, F, backups, parsed) ==
    IF parsed.nan \/ parsed.n - 1 < 0 \/ parsed.n - 1 >= Len(backups)
    THEN RestoreTarget(dbv, d, cfg, tableNames, F, backups, backups[1])
    ELSE RestoreTarget(dbv, d, cfg, tableNames, F, backups, backups[parsed.n])

RestoreIndexed(dbv, d, cfg, tableNames, F, backups, parsed) ==
    IF parsed.nan \/ parsed.n - 1 < 0 \/ parsed.n - 1 >= Len(backups)
    THEN RestoreOutcome(dbv, "invalid", backups, NoTarget, <<>>, <<>>)
    ELSE RestoreTarget(dbv, d, cfg, tableNames, F, backups, backups[parsed.n])

RestoreListed(dbv, d, cfg, index, tableNames, F, backups) ==
    IF Len(backups) = 0
    THEN RestoreOutcome(dbv, "nobackups", backups, NoTarget, <<>>, <<>>)
    ELSE IF index = <<>>
    THEN RestoreOutcome(dbv, "list", backups, NoTarget, <<>>, <<>>)
    ELSE RestoreIndexed(dbv, d, cfg, tableNames, F, backups, parseInt(index))

performRestore(dbv, d, cfg, index, tableNames, F) ==
    IF <<"mkdir", <<>>>> \in F
    THEN Caught(Thrown(RestoreOutcome(dbv, "none", <<>>, NoTarget, <<>>, <<>>)))
    ELSE RestoreListed(dbv, d, cfg, index, tableNames, F, listBackups(d, cfg, F))

(***************************************************************************)
(* The state machine.                                                      *)
(***************************************************************************)
\* live tables and configured special tables
Scenarios ==
    { [live |-> {Ta, Tb}, special |-> <<>>],
      [live |-> {Ta, Tb, Tc}, special |-> <<>>],
      [live |-> {TUser, TChannel}, special |-> <<Tuser>>],
      [live |-> {}, special |-> <<>>] }

NotesFile == BackupPrefix \o <<"n", "o", "t", "e", "s", ".", "t", "x", "t">>

\* a file of the operator whose name does not begin with backup_
ArchiveFile == <<"a", "r", "c", "h", "i", "v", "e">>

LegacyStamp == <<"2", "0", "2", "4", "0", "1", "0", "1">>

LegacyRows == StringifyRows(<<Row1Changed, Row2>>)

\* what the directory holds when the service is constructed: nothing, files
\* of the operator, or artifacts whose timestamp is made of digits only
InitialDirs ==
    { NoFiles,
      WriteFile(WriteFile(NoFiles, NotesFile, TextContent), ArchiveFile, TextContent),
      WriteFile(WriteFile(NoFiles, SingleFileName(LegacyStamp),
                    ObjectContent(<<[key |-> Ta, rows |-> StringifyRows(<<Row1Changed>>)],
                                    [key |-> Tb, rows |-> LegacyRows],
                                    [key |-> Tc, rows |-> <<>>]>>)),
                TableFileName(LegacyStamp, Tb), ArrayContent(LegacyRows)) }

NoOp ==
    [n |-> 0, op |-> "none", msg |-> "none", arg |-> <<>>, index |-> <<>>,
     faults |-> {}, timestamp |-> <<>>, tables |-> <<>>, ok |-> 0,
     failed |-> <<>>, wrote |-> NoFiles, swept |-> FALSE, before |-> {},
     deleted |-> {}, backups |-> <<>>, target |-> NoTarget, restored |-> <<>>,
     upserts |-> <<>>, changed |-> FALSE, rejected |-> FALSE,
     prev |-> [op |-> "none", index |-> <<>>, arg |-> <<>>, changed |-> FALSE]]

\* the operation before the one being recorded
Previous == [op |-> last.op, index |-> last.index, arg |-> last.arg,
             changed |-> last.changed]

(***************************************************************************)
(* The scheduler.  A number of milliseconds is kept as whole seconds and   *)
(* the milliseconds beyond them, so that no product leaves the integers of *)
(* the checker.                                                            *)
(***************************************************************************)
Millis(sec, ms) == [sec |-> sec + ms \div 1000, ms |-> ms % 1000]

MillisAdd(x, y) == Millis(x.sec + y.sec, x.ms + y.ms)

MillisLeq(x, y) == x.sec < y.sec \/ (x.sec = y.sec /\ x.ms <= y.ms)

\* the greatest delay of a timer of the runtime, 2^31 - 1 ms
TimeoutMax == Millis(2147483, 647)

\* setInterval(callback, delay): the period of the timer; a delay that is
\* less than 1 or greater than the greatest delay is replaced by 1 ms
TimerPeriod(delay) ==
    IF MillisLeq(Millis(0, 1), delay) /\ MillisLeq(delay, TimeoutMax)
    THEN delay ELSE Millis(0, 1)

\* private backupTimer: NodeJS.Timeout = null; `intervals` is the number of
\* intervals of the runtime that the instance has started and not cleared
NoTimer == [backupTimer |-> "null", period |-> Millis(0, 0), intervals |-> 0]

\* clearInterval(this.backupTimer)
clearInterval(timer) == [timer EXCEPT !.intervals = IF @ > 0 THEN @ - 1 ELSE 0]

\* this.backupTimer && clearInterval(this.backupTimer)
ClearPrevious(timer) ==
    IF timer.backupTimer # "null" THEN clearInterval(timer) ELSE timer

\* setupAutoBackup(intervalHours) of an instance whose timer is `timer`
setupAutoBackup(timer, intervalHours) ==
    [backupTimer |-> "set",
     period |-> TimerPeriod(Millis(intervalHours * 60 * 60, 0)),
     intervals |-> ClearPrevious(timer).intervals + 1]

\* the timer the constructor leaves
constructor(cfg) ==
    IF cfg.autoBackup /\ cfg.interval > 0
    THEN setupAutoBackup(NoTimer, cfg.interval) ELSE NoTimer

\* dispose() that forgets the handle without the clearInterval
disposeWithoutClear(timer) == [timer EXCEPT !.backupTimer = "null"]

\* dispose() without the clearInterval
disposeKeepsTimer(timer) == timer

\* dispose()
dispose(timer) ==
    IF timer.backupTimer # "null"
    THEN [clearInterval(timer) EXCEPT !.backupTimer = "null"] ELSE timer

\* the runs in flight once the oldest has returned, were a failed run started
\* again
InflightAfterRetry(inflight, run) ==
    IF run.msg = "failed" THEN Append(Tail(inflight), Head(inflight))
    ELSE Tail(inflight)

\* the runs in flight once the oldest has returned: the callback of the timer
\* awaits performBackup and does nothing else
InflightAfter(inflight, run) == Tail(inflight)

\* the scheduler of a service whose timer is `timer`, just constructed
SchedOf(timer) ==
    [timer |-> timer, now |-> Millis(0, 0), since |-> Millis(0, 0),
     advances |-> 0, firedAt |-> <<>>, inflight |-> <<>>, disposes |-> 0,
     firedAtDispose |-> 0, escaped |-> FALSE]

IdleSched == SchedOf(NoTimer)

IdleStamp == [pc |-> "idle", zone |-> "UTC", t1 |-> [day |-> 0, sec |-> 0],
              t2 |-> [day |-> 0, sec |-> 0], s1 |-> <<>>, s2 |-> <<>>]

IdleCodec == [pc |-> "idle", rows |-> <<>>, json |-> <<>>, back |-> <<>>]

InitWith(b) ==
    /\ \E sc \in Scenarios, single \in BOOLEAN, keep \in 0..MaxKeep :
          /\ config = [singleFile |-> single, keepBackups |-> keep,
                       tables |-> sc.special]
          /\ db = [t \in sc.live |-> <<Row1>>]
    /\ dir \in InitialDirs
    /\ clock = 0
    /\ budget = b
    /\ last = NoOp
    /\ hist = [dir0 |-> DOMAIN dir, runs |-> <<>>]
    /\ codec = IdleCodec
    /\ sched = IdleSched
    /\ stamp = IdleStamp

\* the environment never fails
Init == InitWith([ops |-> MaxOps, faults |-> 0])

\* calls of the datastore and of the file system may fail
InitFaulty == InitWith([ops |-> MaxFaultyOps, faults |-> MaxFaults])

\* the sets of at most k elements of S
RECURSIVE SubsetsUpTo(_, _)
SubsetsUpTo(S, k) ==
    IF k <= 0 THEN {{}}
    ELSE LET smaller == SubsetsUpTo(S, k - 1)
         IN smaller \cup {F \cup {p} : F \in smaller, p \in S}

\* the sets of fault points an operation may suffer
FaultSets(points) ==
    IF budget.faults = 0 THEN {{}} ELSE SubsetsUpTo(points, budget.faults)

Spend(F) == [ops |-> budget.ops - 1, faults |-> budget.faults - Cardinality(F)]

SpecificTableChoices == {<<>>, <<Tb>>}

\* the arguments of performRestore: index and tableNames
RestoreChoices ==
    { [index |-> <<>>, tableNames |-> <<>>],
      [index |-> <<"1">>, tableNames |-> <<>>],
      [index |-> <<"1">>, tableNames |-> <<Tb>>],
      [index |-> <<"2">>, tableNames |-> <<>>],
      [index |-> <<"x">>, tableNames |-> <<>>] }

\* the calls of a backup run that can fail: those the run without failure makes
\* mkdirSync runs when config.dir is missing, which the model does not tell
\* from a directory without files
MkdirFaultPoints == IF DOMAIN dir = {} THEN {<<"mkdir", <<>>>>} ELSE {}

FaultPointsOfBackup(run) ==
    MkdirFaultPoints
    \cup {<<"stats", <<>>>>}
    \cup {<<"get", t>> : t \in Range(run.tables)}
    \cup {<<"write", f>> : f \in DOMAIN run.wrote}
    \cup (IF run.swept THEN {<<"readdir", <<>>>>} ELSE {})
    \cup {<<"unlink", f>> : f \in run.deleted}

BackupFaultPoints(specificTables, timestamp) ==
    FaultPointsOfBackup(performBackup(db, dir, config, specificTables, timestamp, {}))

\* a command or a timer tick runs performBackup
Backup(specificTables, t, F) ==
    /\ budget.ops > 0
    /\ t \in {clock, clock + 1} /\ t >= 1 /\ t <= MaxTime
    /\ \E timestamp \in {getTimestamp(InstantAt(t))} :
         \E run \in {performBackup(db, dir, config, specificTables, timestamp, F)} :
          /\ dir' = run.dir
          /\ last' = [NoOp EXCEPT !.n = last.n + 1, !.op = "backup", !.msg = run.msg,
                                  !.arg = specificTables, !.faults = F,
                                  !.timestamp = timestamp, !.tables = run.tables,
                                  !.ok = run.ok, !.failed = run.failed,
                                  !.wrote = run.wrote, !.swept = run.swept,
                                  !.before = run.before, !.deleted = run.deleted,
                                  !.changed = (run.dir # dir),
                                  !.rejected = run.rejected,
                                  !.prev = Previous]
          /\ hist' = [hist EXCEPT !.runs = Append(@,
                         [timestamp |-> timestamp, tables |-> run.tables,
                          msg |-> run.msg, faults |-> F,
                          wrote |-> DOMAIN run.wrote])]
    /\ clock' = t
    /\ budget' = Spend(F)
    /\ UNCHANGED <<config, db, codec, sched, stamp>>

\* the calls of a restore that can fail
FaultPointsOfRestore(run) ==
    MkdirFaultPoints
    \cup {<<"readdir", <<>>>>}
    \cup (IF run.target # NoTarget /\ ~config.singleFile
          THEN {<<"readdir2", <<>>>>} ELSE {})
    \cup (IF run.target = NoTarget THEN {}
          ELSE IF config.singleFile
          THEN {<<"read", SingleFileName(run.target.timestamp)>>}
          ELSE {<<"read", f>> : f \in {g \in DOMAIN dir :
                                   TimestampFileMatch(run.target.timestamp, g)}})
    \cup {<<"upsert", run.upserts[i].table>> : i \in 1..Len(run.upserts)}

RestoreFaultPoints(index, tableNames) ==
    FaultPointsOfRestore(performRestore(db, dir, config, index, tableNames, {}))

\* a command runs performRestore
Restore(index, tableNames, F) ==
    /\ budget.ops > 0
    /\ \E run \in {performRestore(db, dir, config, index, tableNames, F)} :
          /\ db' = run.db
          /\ last' = [NoOp EXCEPT !.n = last.n + 1, !.op = "restore", !.msg = run.msg,
                                  !.arg = tableNames, !.index = index, !.faults = F,
                                  !.backups = run.backups, !.target = run.target,
                                  !.restored = run.restored,
                                  !.upserts = run.upserts,
                                  !.changed = (run.db # db),
                                  !.rejected = run.rejected,
                                  !.prev = Previous]
    /\ budget' = Spend(F)
    /\ UNCHANGED <<config, dir, clock, hist, codec, sched, stamp>>

\* another command of the plugin, or another plugin, changes a table
DbWrite(table) ==
    /\ budget.ops > 0
    /\ table \in DOMAIN db
    /\ db[table] = <<Row1>>
    /\ db' = [db EXCEPT ![table] = <<Row1Changed, Row2>>]
    /\ last' = [NoOp EXCEPT !.n = last.n + 1, !.op = "dbwrite", !.arg = table,
                            !.changed = TRUE, !.prev = Previous]
    /\ budget' = Spend({})
    /\ UNCHANGED <<config, dir, clock, hist, codec, sched, stamp>>

Next ==
    \/ \E specificTables \in SpecificTableChoices, t \in 1..MaxTime :
          \E F \in FaultSets(BackupFaultPoints(specificTables,
                                               getTimestamp(InstantAt(t)))) :
             Backup(specificTables, t, F)
    \/ \E c \in RestoreChoices :
          \E F \in FaultSets(RestoreFaultPoints(c.index, c.tableNames)) :
             Restore(c.index, c.tableNames, F)
    \/ \E table \in DOMAIN db : DbWrite(table)

\* behaviours in which no call of the environment fails
Spec == Init /\ [][Next]_vars

\* behaviours in which calls of the datastore and of the file system may fail
SpecFaulty == InitFaulty /\ [][Next]_vars

(***************************************************************************)
(* The service with its timer: time passes up to the instant the timer is  *)
(* due, the timer fires and starts a run of performBackup, the run returns *)
(* later, and the plugin is disposed.                                      *)
(***************************************************************************)
\* instants the behaviour lets pass
MaxAdvances == 3

\* calls of dispose
MaxDisposes == 2

\* calls that fail during the periodic runs
MaxTimerFaults == 1

\* config.interval, in hours
Intervals == {0, 1, 2, 720}

OneHour == Millis(3600, 0)

\* the instant the clock shows `elapsed` after the construction, at 12:00:00
InstantAfter(elapsed) ==
    [day |-> BaseDay + (43200 + elapsed.sec) \div 86400,
     sec |-> (43200 + elapsed.sec) % 86400]

InitTimer ==
    /\ \E single \in BOOLEAN, keep \in 0..1, auto \in BOOLEAN, hours \in Intervals :
          config = [singleFile |-> single, keepBackups |-> keep, tables |-> <<>>,
                    autoBackup |-> auto, interval |-> hours]
    /\ db = [t \in {Ta, Tb} |-> <<Row1>>]
    /\ dir = NoFiles
    /\ clock = 0
    /\ budget = [ops |-> 0, faults |-> MaxTimerFaults]
    /\ last = NoOp
    /\ hist = [dir0 |-> {}, runs |-> <<>>]
    /\ codec = IdleCodec
    /\ sched = SchedOf(constructor(config))
    /\ stamp = IdleStamp

\* the runtime holds an interval of the instance
Active == sched.timer.intervals > 0

\* the instant the timer is due
Due == MillisAdd(sched.since, sched.timer.period)

\* time passes: up to the instant the timer is due, by an hour without timer
Advance ==
    /\ sched.advances < MaxAdvances
    /\ Active => sched.now # Due
    /\ sched' = [sched EXCEPT !.advances = @ + 1,
                              !.now = IF Active
                                      THEN Due ELSE MillisAdd(@, OneHour)]
    /\ UNCHANGED <<config, db, dir, clock, budget, last, hist, codec, stamp>>

\* the timer fires: the callback calls performBackup, which reads the clock
TimerFires ==
    /\ Active
    /\ sched.now = Due
    /\ sched' = [sched EXCEPT !.since = sched.now,
                              !.firedAt = Append(@, sched.now),
                              !.inflight = Append(@, getTimestamp(InstantAfter(sched.now)))]
    /\ UNCHANGED <<config, db, dir, clock, budget, last, hist, codec, stamp>>

\* the oldest run in flight does its work and returns to the callback
RunCompletes(F) ==
    /\ sched.inflight # <<>>
    /\ \E run \in {performBackup(db, dir, config, <<>>, Head(sched.inflight), F)} :
          /\ dir' = run.dir
          /\ last' = [NoOp EXCEPT !.n = last.n + 1, !.op = "tick", !.msg = run.msg,
                                  !.faults = F,
                                  !.timestamp = Head(sched.inflight),
                                  !.tables = run.tables,
                                  !.ok = run.ok, !.failed = run.failed,
                                  !.wrote = run.wrote, !.swept = run.swept,
                                  !.before = run.before, !.deleted = run.deleted,
                                  !.changed = (run.dir # dir),
                                  !.rejected = run.rejected,
                                  !.prev = Previous]
          /\ hist' = [hist EXCEPT !.runs = Append(@,
                         [timestamp |-> Head(sched.inflight), tables |-> run.tables,
                          msg |-> run.msg, faults |-> F,
                          wrote |-> DOMAIN run.wrote,
                          fired |-> Len(sched.firedAt)])]
          /\ sched' = [sched EXCEPT !.inflight = InflightAfter(@, run),
                                    !.escaped = @ \/ run.rejected]
    /\ budget' = [budget EXCEPT !.faults = @ - Cardinality(F)]
    /\ UNCHANGED <<config, db, clock, codec, stamp>>

RunCompletesSomehow ==
    /\ sched.inflight # <<>>
    /\ \E F \in FaultSets(BackupFaultPoints(<<>>, Head(sched.inflight))) :
          RunCompletes(F)

\* ctx.on('dispose', () => backupService.dispose())
Dispose ==
    /\ sched.disposes < MaxDisposes
    /\ sched' = [sched EXCEPT !.timer = dispose(@),
                              !.disposes = @ + 1,
                              !.firedAtDispose = IF sched.disposes = 0
                                                 THEN Len(sched.firedAt) ELSE @]
    /\ last' = [NoOp EXCEPT !.n = last.n + 1, !.op = "dispose",
                            !.changed = (dispose(sched.timer) # sched.timer),
                            !.prev = Previous]
    /\ UNCHANGED <<config, db, dir, clock, budget, hist, codec, stamp>>

TimerNext == Advance \/ TimerFires \/ RunCompletesSomehow \/ Dispose

\* when each of the three steps can be taken
CanAdvance ==
    /\ sched.advances < MaxAdvances
    /\ Active => sched.now # Due

CanFire == Active /\ sched.now = Due

CanComplete == sched.inflight # <<>>

\* the event loop runs every callback that is due, every run returns, and
\* time passes: weak fairness of the three steps, with their guards written
\* out
SpecTimer ==
    /\ InitTimer
    /\ [][TimerNext]_vars
    /\ ([]<>(~CanAdvance) \/ []<><<Advance>>_vars)
    /\ ([]<>(~CanFire) \/ []<><<TimerFires>>_vars)
    /\ ([]<>(~CanComplete) \/ []<><<RunCompletesSomehow>>_vars)

(***************************************************************************)
(* The codec on its own: rows are serialized as backupTables writes them   *)
(* and parsed as restoreBackup reads them.                                 *)
(***************************************************************************)
\* rows of one serialize / parse round
MaxCodecRows == 2

Year10000 == DateV(DaysFromCivil(10000, 1, 1), 0)

\* text with the shape of a date whose month is 99
MonthlessText == [DateToISOString(BaseDay, 0) EXCEPT ![6] = "9", ![7] = "9"]

CodecValues ==
    { DateV(BaseDay, 43200123), DateV(0, 0), Year10000, InvalidDate,
      StrV(<<"h", "i">>), StrV(DateToISOString(BaseDay, 1)), StrV(MonthlessText),
      NumV(7), NullV }

CodecInputs ==
    UNION { {[i \in 1..n |-> [id |-> i, v |-> f[i]]] : f \in [1..n -> CodecValues]} :
            n \in 1..MaxCodecRows }

CodecInit ==
    /\ codec \in {[pc |-> "rows", rows |-> r, json |-> <<>>, back |-> <<>>] :
                     r \in CodecInputs}
    /\ config = [singleFile |-> FALSE, keepBackups |-> 0, tables |-> <<>>]
    /\ db = [t \in {} |-> <<>>]
    /\ dir = NoFiles
    /\ clock = 0
    /\ budget = [ops |-> 0, faults |-> 0]
    /\ last = NoOp
    /\ hist = [dir0 |-> {}, runs |-> <<>>]
    /\ sched = IdleSched
    /\ stamp = IdleStamp

\* JSON.stringify(rows, null, 2) in backupTables
Serialize ==
    /\ codec.pc = "rows"
    /\ codec' = [codec EXCEPT !.pc = "json", !.json = StringifyRows(codec.rows)]
    /\ UNCHANGED mainVars

\* parseJSONWithDates(content) in restoreBackup
Parse ==
    /\ codec.pc = "json"
    /\ codec' = [codec EXCEPT !.pc = "back", !.back = ParseRowsWithDates(codec.json)]
    /\ UNCHANGED mainVars

CodecNext == Serialize \/ Parse

SpecCodec == CodecInit /\ [][CodecNext]_vars

(***************************************************************************)
(* getTimestamp on its own: two calls at two instants, on a host whose     *)
(* time zone is UTC or Europe/Berlin.  getFullYear() ... getSeconds() read *)
(* the local time of the host.                                             *)
(***************************************************************************)
Zones == {"UTC", "Europe/Berlin"}

\* 2024-10-27T01:00:00Z, when daylight saving time ends in Europe/Berlin
DstEnd == [day |-> DaysFromCivil(2024, 10, 27), sec |-> 3600]

InstantLess(x, y) == x.day < y.day \/ (x.day = y.day /\ x.sec < y.sec)

\* seconds the local time of the zone is ahead of UTC, in autumn 2024
ZoneOffset(zone, now) ==
    IF zone = "UTC" THEN 0
    ELSE IF InstantLess(now, DstEnd) THEN 7200 ELSE 3600

\* the day and the second of the day the getters of `now` read
LocalTime(zone, now) ==
    [day |-> now.day + (now.sec + ZoneOffset(zone, now)) \div 86400,
     sec |-> (now.sec + ZoneOffset(zone, now)) % 86400]

\* getTimestamp() called at the instant `now` on a host of the zone
getTimestampIn(zone, now) == getTimestamp(LocalTime(zone, now))

\* instants of 2024-10-26, -27 and -28 (UTC), around the end of daylight
\* saving time and around midnight
StampInstants ==
    { [day |-> DstEnd.day - 1, sec |-> 79199],
      [day |-> DstEnd.day - 1, sec |-> 79200],
      [day |-> DstEnd.day, sec |-> 1800],
      [day |-> DstEnd.day, sec |-> 3599],
      [day |-> DstEnd.day, sec |-> 3600],
      [day |-> DstEnd.day, sec |-> 4500],
      [day |-> DstEnd.day, sec |-> 7200],
      [day |-> DstEnd.day + 1, sec |-> 43200] }

StampInit ==
    /\ \E z \in Zones, x \in StampInstants, y \in StampInstants :
          /\ InstantLess(x, y)
          /\ stamp = [pc |-> "instants", zone |-> z, t1 |-> x, t2 |-> y,
                      s1 |-> <<>>, s2 |-> <<>>]
    /\ config = [singleFile |-> FALSE, keepBackups |-> 0, tables |-> <<>>]
    /\ db = [t \in {} |-> <<>>]
    /\ dir = NoFiles
    /\ clock = 0
    /\ budget = [ops |-> 0, faults |-> 0]
    /\ last = NoOp
    /\ hist = [dir0 |-> {}, runs |-> <<>>]
    /\ codec = IdleCodec
    /\ sched = IdleSched

\* the call at the earlier instant
StampFirst ==
    /\ stamp.pc = "instants"
    /\ stamp' = [stamp EXCEPT !.pc = "first",
                              !.s1 = getTimestampIn(stamp.zone, stamp.t1)]
    /\ UNCHANGED <<config, db, dir, clock, budget, last, hist, codec, sched>>

\* the call at the later instant
StampSecond ==
    /\ stamp.pc = "first"
    /\ stamp' = [stamp EXCEPT !.pc = "done",
                              !.s2 = getTimestampIn(stamp.zone, stamp.t2)]
    /\ UNCHANGED <<config, db, dir, clock, budget, last, hist, codec, sched>>

StampNext == StampFirst \/ StampSecond

SpecTimestamp == StampInit /\ [][StampNext]_vars

(***************************************************************************)
(* listBackups on its own: the directory holds any of a few files, named   *)
(* as a single-file backup, as a table file, or as neither, and restores   *)
(* by index read the catalog.                                              *)
(***************************************************************************)
OlderStamp == <<"2", "0", "2", "3", "1", "2", "3", "1">>

ShortStamp == <<"2", "0", "2", "4">>

SingleNames ==
    { SingleFileName(LegacyStamp), SingleFileName(OlderStamp),
      SingleFileName(ShortStamp), SingleFileName(getTimestamp(InstantAt(1))) }

TableNames ==
    { TableFileName(LegacyStamp, Ta), TableFileName(LegacyStamp, Tb),
      TableFileName(OlderStamp, Ta), TableFileName(ShortStamp, Tb),
      TableFileName(getTimestamp(InstantAt(2)), Ta) }

CatalogNames == SingleNames \cup TableNames \cup {NotesFile}

CatalogContent(file) ==
    IF file \in SingleNames
    THEN ObjectContent(<<[key |-> Ta, rows |-> StringifyRows(<<Row1Changed>>)]>>)
    ELSE IF file \in TableNames THEN ArrayContent(StringifyRows(<<Row1Changed>>))
    ELSE TextContent

CatalogInit ==
    /\ \E single \in BOOLEAN :
          config = [singleFile |-> single, keepBackups |-> 0, tables |-> <<>>]
    /\ \E names \in SUBSET CatalogNames : dir = [f \in names |-> CatalogContent(f)]
    /\ db = [t \in {Ta, Tb} |-> <<Row1>>]
    /\ clock = 0
    /\ budget = [ops |-> 1, faults |-> 0]
    /\ last = NoOp
    /\ hist = [dir0 |-> DOMAIN dir, runs |-> <<>>]
    /\ codec = IdleCodec
    /\ sched = IdleSched
    /\ stamp = IdleStamp

\* a restore by index, which picks its target from the list of listBackups
CatalogNext == \E index \in {<<"1">>, <<"2">>} : Restore(index, <<>>, {})

SpecCatalog == CatalogInit /\ [][CatalogNext]_vars

(***************************************************************************)
(* restoreBackup on its own: the directory holds one artifact of one       *)
(* timestamp, whose values and files are of every kind, the datastore has  *)
(* the tables a and c but not b, and one restore runs, in which a call may *)
(* fail.                                                                   *)
(***************************************************************************)
\* calls that fail during the restore
MaxRestoreFaults == 1

RestoreTables == <<Ta, Tb, Tc>>

\* the value of a key of the single file
ValueKinds == {"absent", "rows", "empty", "scalar"}

\* the content of a table file
FileKinds == {"absent", "rows", "empty", "object", "text"}

SavedRows == StringifyRows(<<Row1Changed, Row2>>)

\* the single file whose keys have the values of the kinds k
SingleArtifact(k) ==
    [ObjectContent(
        [i \in 1..Len(SelectSeq(RestoreTables, LAMBDA t : k[t] # "absent")) |->
            [key |-> SelectSeq(RestoreTables, LAMBDA t : k[t] # "absent")[i],
             rows |-> IF k[SelectSeq(RestoreTables, LAMBDA t : k[t] # "absent")[i]]
                         = "empty"
                      THEN <<>> ELSE SavedRows]])
     EXCEPT !.scalars = {t \in Range(RestoreTables) : k[t] = "scalar"}]

\* the table file of the kind
TableArtifact(kind) ==
    CASE kind = "rows" -> ArrayContent(SavedRows)
      [] kind = "empty" -> ArrayContent(<<>>)
      [] kind = "object" -> ObjectContent(<<[key |-> Ta, rows |-> SavedRows]>>)
      [] OTHER -> TextContent

RestoreDirs(single) ==
    IF single
    THEN {WriteFile(NoFiles, SingleFileName(LegacyStamp), SingleArtifact(k)) :
             k \in [Range(RestoreTables) -> ValueKinds]}
         \cup {WriteFile(NoFiles, SingleFileName(LegacyStamp), TextContent)}
    ELSE {[f \in {TableFileName(LegacyStamp, t) :
                     t \in {u \in Range(RestoreTables) : k[u] # "absent"}} |->
              TableArtifact(k[TableFileMatch(f).table])] :
             k \in [Range(RestoreTables) -> FileKinds]}

RestoreInit ==
    /\ \E single \in BOOLEAN :
          /\ config = [singleFile |-> single, keepBackups |-> 0, tables |-> <<>>]
          /\ dir \in RestoreDirs(single)
    /\ db = [t \in {Ta, Tc} |-> <<Row1>>]
    /\ clock = 0
    /\ budget = [ops |-> 1, faults |-> MaxRestoreFaults]
    /\ last = NoOp
    /\ hist = [dir0 |-> DOMAIN dir, runs |-> <<>>]
    /\ codec = IdleCodec
    /\ sched = IdleSched
    /\ stamp = IdleStamp

\* the table subsets of the restore command
RestoreSubsets == {<<>>, <<Tc, Ta>>, <<Tb>>}

RestoreNext ==
    \E tableNames \in RestoreSubsets :
       \E F \in FaultSets(RestoreFaultPoints(<<"1">>, tableNames)) :
          Restore(<<"1">>, tableNames, F)

SpecRestore == RestoreInit /\ [][RestoreNext]_vars

(***************************************************************************)
(* The backup command with -t: one backup run of an explicit subset of     *)
(* tables, from every initial state.                                       *)
(***************************************************************************)
\* options.tables.split(',').filter(Boolean)
SubsetChoices ==
    { <<Tb, Tx, Ta>>, <<Tuser, Tx, TChannel>>, <<TChannel>>, <<Tx>> }

InitSubset == InitWith([ops |-> 1, faults |-> 0])

SubsetNext == \E specificTables \in SubsetChoices : Backup(specificTables, 1, {})

SpecSubset == InitSubset /\ [][SubsetNext]_vars

(***************************************************************************)
(* Backups with special tables configured that the datastore does not      *)
(* have: backup runs of all tables, in which a call may fail.              *)
(***************************************************************************)
\* config.tables
SpecialChoices == { <<Tx>>, <<Tb, Tx>>, <<Tx, Tc>> }

\* backup runs of the behaviour
MaxSpecialOps == 2

InitSpecial ==
    /\ \E special \in SpecialChoices, single \in BOOLEAN, keep \in 0..MaxKeep :
          config = [singleFile |-> single, keepBackups |-> keep, tables |-> special]
    /\ db = [t \in {Ta, Tb} |-> <<Row1>>]
    /\ dir \in InitialDirs
    /\ clock = 0
    /\ budget = [ops |-> MaxSpecialOps, faults |-> MaxFaults]
    /\ last = NoOp
    /\ hist = [dir0 |-> DOMAIN dir, runs |-> <<>>]
    /\ codec = IdleCodec
    /\ sched = IdleSched
    /\ stamp = IdleStamp

SpecialNext ==
    \E t \in 1..MaxTime :
       \E F \in FaultSets(BackupFaultPoints(<<>>, getTimestamp(InstantAt(t)))) :
          Backup(<<>>, t, F)

SpecSpecial == InitSpecial /\ [][SpecialNext]_vars

(***************************************************************************)
(* Properties.                                                             *)
(***************************************************************************)
Min(x, y) == IF x <= y THEN x ELSE y

IsSeqSet(list) == \A i, j \in 1..Len(list) : list[i] = list[j] => i = j

\* the text between backup_ and .json of a file name
StampOf(file) == SubSeq(file, Len(BackupPrefix) + 1, Len(file) - Len(JsonSuffix))

\* YYYYMMDD_HHMMSS
IsTimestamp(x) ==
    /\ Len(x) = 15
    /\ x[9] = "_"
    /\ \A i \in (1..15) \ {9} : IsDigit(x[i])

\* a file named backup_<timestamp>.json, the timestamp being one of
\* getTimestamp or a run of digits
IsSingleFileArtifact(file) ==
    /\ StartsWith(file, BackupPrefix)
    /\ EndsWith(file, JsonSuffix)
    /\ Len(file) > Len(BackupPrefix) + Len(JsonSuffix)
    /\ (IsTimestamp(StampOf(file)) \/ AllDigits(StampOf(file)))

\* C1: after rows are serialized by backupTables and read back by
\* parseJSONWithDates, every date field that denotes an instant is a date of
\* the same instant and
\* every other field, a string with the shape of an ISO date included, equals
\* the value that was backed up.
C1_DateRoundTrip ==
    codec.pc = "back" =>
        /\ Len(codec.back) = Len(codec.rows)
        /\ \A i \in 1..Len(codec.rows) :
              /\ codec.back[i].id = codec.rows[i].id
              /\ codec.rows[i].v # InvalidDate
                    => codec.back[i].v = codec.rows[i].v

\* C2: a performRestore that repeats the performRestore just before it (same
\* index, same tables, nothing in between) leaves the datastore as the first
\* one left it.
C2_IdempotentRestore ==
    ( /\ last.op = "restore" /\ last.prev.op = "restore"
      /\ last.prev.index = last.index /\ last.prev.arg = last.arg )
    => ~last.changed

C2_Witness ==
    /\ last.op = "restore" /\ last.prev.op = "restore"
    /\ last.prev.index = last.index /\ last.prev.arg = last.arg
    /\ last.prev.changed
    /\ last.msg = "restored" /\ last.upserts # <<>>
    /\ ~last.changed

\* C3: in single-file mode, after the sweep of a backup run with
\* keepBackups = N >= 1, the single-file artifacts left are min(N, number
\* before the sweep) and they are the ones with the greatest timestamps,
\* whatever else the directory holds.
C3_SingleFileRetention ==
    (last.op = "backup" /\ config.singleFile /\ last.swept) =>
        LET before == {f \in last.before : IsSingleFileArtifact(f)}
            after == {f \in DOMAIN dir : IsSingleFileArtifact(f)}
        IN /\ after \subseteq before
           /\ Cardinality(after) = Min(config.keepBackups, Cardinality(before))
           /\ \A f \in after, g \in before \ after :
                 localeCompare(StampOf(f), StampOf(g)) > 0

\* C4: when the datastore get fails for the tables F of a backup run and
\* nothing else fails, the run completes, reports exactly F as failed, and
\* writes the rows of every other table as fetched and no data for F, in
\* single-file and in multi-file mode.
C4_PartialFailureIsolation ==
    ( /\ last.op = "backup" /\ last.msg # "notables"
      /\ \A p \in last.faults : p[1] \notin {"mkdir", "stats", "write"} )
    =>
    LET F == {t \in Range(last.tables) :
                 <<"get", t>> \in last.faults \/ t \notin DOMAIN db}
        fetched == SelectSeq(last.tables, LAMBDA t : t \notin F)
    IN /\ last.msg = "done"
       /\ last.failed = SelectSeq(last.tables, LAMBDA t : t \in F)
       /\ last.ok = Len(fetched)
       /\ IF config.singleFile
          THEN /\ DOMAIN last.wrote = {SingleFileName(last.timestamp)}
               /\ last.wrote[SingleFileName(last.timestamp)] =
                     ObjectContent([i \in 1..Len(fetched) |->
                         [key |-> fetched[i],
                          rows |-> StringifyRows(db[fetched[i]])]])
          ELSE /\ DOMAIN last.wrote =
                     {TableFileName(last.timestamp, t) : t \in Range(fetched)}
               /\ \A t \in Range(fetched) :
                     last.wrote[TableFileName(last.timestamp, t)] =
                        ArrayContent(StringifyRows(db[t]))

C4_Witness ==
    /\ last.op = "backup" /\ last.msg = "done"
    /\ config.singleFile
    /\ last.faults = {<<"get", Tb>>}
    /\ Range(last.tables) = {Ta, Tb, Tc}
    /\ last.failed = <<Tb>>
    /\ last.ok = 2

\* C5: performBackup without an explicit subset backs up a list without
\* duplicates that holds every live table, and for a configured special name
\* that matches a live table without regard to case it holds the live
\* spelling and not the configured one.
C5_ResolverCaseInsensitivity ==
    (last.op = "backup" /\ last.arg = <<>>) =>
        LET live == DOMAIN db
            isLive(c) == \E t \in live : ToLowerCase(t) = ToLowerCase(c)
        IN /\ IsSeqSet(last.tables)
           /\ live \subseteq Range(last.tables)
           /\ \A i \in 1..Len(config.tables) :
                 isLive(config.tables[i]) =>
                    /\ \E t \in live :
                          /\ ToLowerCase(t) = ToLowerCase(config.tables[i])
                          /\ t \in Range(last.tables)
                    /\ config.tables[i] \in Range(last.tables)
                          => config.tables[i] \in live
           /\ (live = {TUser, TChannel} /\ config.tables = <<Tuser>>)
                 => Range(last.tables) = {TUser, TChannel}

C5_Witness ==
    /\ last.op = "backup" /\ last.arg = <<>>
    /\ DOMAIN db = {TUser, TChannel} /\ config.tables = <<Tuser>>
    /\ Range(last.tables) = {TUser, TChannel}
    /\ Len(last.tables) = 2

\* C6: with no live table and no special table configured, performBackup
\* answers that there is no table to back up, writes no file and does not
\* sweep: no file is deleted.
C6_EmptyTableSetShortCircuit ==
    (last.op = "backup" /\ DOMAIN db = {} /\ config.tables = <<>>) =>
        /\ last.msg = "notables"
        /\ last.wrote = NoFiles
        /\ ~last.swept
        /\ last.deleted = {}
        /\ ~last.changed
        /\ DOMAIN dir = last.before

C6_Witness ==
    /\ last.op = "backup" /\ DOMAIN db = {} /\ config.tables = <<>>
    /\ last.msg = "notables"
    /\ config.keepBackups = 1
    /\ Cardinality(DOMAIN dir) = 2

\* the files of a completed run that are in the directory
FilesOfRun(r) == r.wrote \cap DOMAIN dir

\* C7: with singleFile = false and keepBackups = 2, after three performBackup
\* runs of the tables a and b at timestamps T1 < T2 < T3 that started from an
\* empty directory, the directory holds exactly the four files of T2 and T3.
C7_MultiFileRetention ==
    ( /\ ~config.singleFile /\ config.keepBackups = 2
      /\ hist.dir0 = {}
      /\ Len(hist.runs) = 3
      /\ \A i \in 1..3 : /\ hist.runs[i].msg = "done"
                         /\ Range(hist.runs[i].tables) = {Ta, Tb}
      /\ \A i \in 1..2 : localeCompare(hist.runs[i + 1].timestamp,
                                       hist.runs[i].timestamp) > 0 )
    => DOMAIN dir = {TableFileName(hist.runs[i].timestamp, t) :
                        i \in {2, 3}, t \in {Ta, Tb}}

\* C8: in multi-file mode, performRestore with the index of an artifact that
\* performBackup wrote for the non-empty tables a, b and c, and with
\* tables = [b], upserts the backed-up rows of b into b, reports b as
\* restored and upserts nothing into a or c.
C8_RestoreSubsetMultiFile ==
    ( /\ last.op = "restore" /\ ~config.singleFile
      /\ last.arg = <<Tb>>
      /\ last.target # NoTarget
      /\ \E i \in 1..Len(hist.runs) :
            LET r == hist.runs[i]
            IN /\ r.msg = "done"
               /\ Range(r.tables) = {Ta, Tb, Tc}
               /\ r.wrote \subseteq DOMAIN dir
               /\ \A f \in r.wrote :
                     /\ dir[f].rows # <<>>
                     /\ TimestampFileMatch(last.target.timestamp, f) )
    => /\ last.msg = "restored"
       /\ last.restored = <<Tb>>
       /\ Len(last.upserts) = 1
       /\ last.upserts[1].table = Tb
       /\ \E i \in 1..Len(hist.runs) :
             /\ TableFileName(hist.runs[i].timestamp, Tb) \in FilesOfRun(hist.runs[i])
             /\ last.upserts[1].rows = ParseRowsWithDates(
                   dir[TableFileName(hist.runs[i].timestamp, Tb)].rows)

\* C9: in single-file mode, every file backup_<timestamp>.json that a
\* completed performBackup wrote and that is in the directory is returned by
\* listBackups as one entry whose timestamp is the timestamp of the run.
C9_SingleFileCatalogued ==
    config.singleFile =>
        \A backups \in {listBackups(dir, config, {})} :
           \A i \in 1..Len(hist.runs) :
              ( /\ hist.runs[i].msg = "done"
                /\ SingleFileName(hist.runs[i].timestamp) \in FilesOfRun(hist.runs[i]) )
              => Cardinality({k \in 1..Len(backups) :
                     backups[k].timestamp = hist.runs[i].timestamp}) = 1

\* C10: in multi-file mode, listBackups returns one entry for every backup run
\* whose files are in the directory: its timestamp is the full timestamp of
\* the run and its tables are the tables whose files the run wrote.
C10_MultiFileCatalogGrouping ==
    ~config.singleFile =>
        \A backups \in {listBackups(dir, config, {})} :
           \A r \in Range(hist.runs) :
                 (r.msg = "done" /\ FilesOfRun(r) # {}) =>
                    /\ Cardinality({k \in 1..Len(backups) :
                           backups[k].timestamp = r.timestamp}) = 1
                    /\ \A k \in 1..Len(backups) :
                          backups[k].timestamp = r.timestamp =>
                             Range(backups[k].tables) =
                                {t \in Range(r.tables) :
                                    TableFileName(r.timestamp, t) \in FilesOfRun(r)}

\* the table files of the artifact chosen by a restore, as readdir lists them
FilesOfTarget == {f \in DOMAIN dir : TimestampFileMatch(last.target.timestamp, f)}

\* C11: in multi-file mode, performRestore with a valid index and no table
\* subset upserts the rows of every non-empty table file of the chosen
\* artifact into the table the rows were backed up from, and nothing from
\* the files of another artifact.
C11_RestoreAllTargetsOriginalTables ==
    ( /\ last.op = "restore" /\ ~config.singleFile
      /\ last.arg = <<>>
      /\ last.target # NoTarget )
    => /\ \A r \in Range(hist.runs), t \in DOMAIN db :
             ( /\ r.msg = "done"
               /\ TableFileName(r.timestamp, t) \in r.wrote \cap FilesOfTarget
               /\ dir[TableFileName(r.timestamp, t)].rows # <<>> )
             => \E k \in 1..Len(last.upserts) :
                   /\ last.upserts[k].table = t
                   /\ last.upserts[k].rows = ParseRowsWithDates(
                         dir[TableFileName(r.timestamp, t)].rows)
       /\ \A k \in 1..Len(last.upserts) :
             \E f \in FilesOfTarget :
                last.upserts[k].rows = ParseRowsWithDates(dir[f].rows)

\* the index of the last restore designates a catalogued backup
ValidIndex ==
    /\ last.index # <<>>
    /\ ~parseInt(last.index).nan
    /\ parseInt(last.index).n >= 1
    /\ parseInt(last.index).n <= Len(last.backups)

\* C12: performRestore upserts only when the index parses to an integer
\* between 1 and the number of catalogued backups; otherwise it writes
\* nothing to the datastore and answers with the message that there is no
\* backup when the catalog is empty, else with the listing when the index is
\* absent, else with the invalid-index message.
C12_RestoreOnlyForValidIndex ==
    last.op = "restore" =>
        /\ (last.upserts # <<>> \/ last.changed) => ValidIndex
        /\ ~ValidIndex =>
              /\ last.upserts = <<>> /\ ~last.changed
              /\ last.target = NoTarget
              /\ last.msg = IF Len(last.backups) = 0 THEN "nobackups"
                            ELSE IF last.index = <<>> THEN "list"
                            ELSE "invalid"

C12_Witness ==
    /\ last.op = "restore" /\ ~ValidIndex
    /\ last.index = <<"2">> /\ Len(last.backups) = 1
    /\ last.msg = "invalid"
    /\ last.prev.op = "restore" /\ last.prev.changed

\* C12 as stated: without a valid index the answer is the listing or the
\* invalid-index message, and nothing is written.
C12_ListingOrInvalidIndex ==
    (last.op = "restore" /\ ~ValidIndex) =>
        /\ last.upserts = <<>> /\ ~last.changed
        /\ last.msg \in {"list", "invalid"}

\* C13: whatever call of the datastore or of the file system fails,
\* performBackup and performRestore return a message and do not throw.
C13_PublicOperationsNeverThrow ==
    last.op \in {"backup", "restore"} =>
        /\ ~last.rejected
        /\ last.msg \in {"failed", "notables", "done", "nobackups", "list",
                         "invalid", "notfound", "nodata", "restored"}
        /\ (\/ \E p \in last.faults : p[1] \in {"mkdir", "stats"}
            \/ /\ <<"readdir2", <<>>>> \in last.faults
               /\ <<"readdir", <<>>>> \notin last.faults)
              => last.msg = "failed"

C13_Witness ==
    /\ last.op = "restore" /\ last.faults = {<<"readdir2", <<>>>>}
    /\ last.msg = "failed" /\ ~last.rejected
    /\ last.prev.op = "backup" /\ last.prev.changed

\* C14: with keepBackups = 0 no file is ever deleted from the backup
\* directory: the files it held at construction and the files every run
\* wrote are all there.
C14_UnlimitedRetention ==
    config.keepBackups = 0 =>
        /\ hist.dir0 \subseteq DOMAIN dir
        /\ \A r \in Range(hist.runs) : r.wrote \subseteq DOMAIN dir
        /\ last.deleted = {} /\ ~last.swept
        /\ last.op = "backup" => last.before \subseteq DOMAIN dir

C14_Witness ==
    /\ config.keepBackups = 0 /\ ~config.singleFile
    /\ Cardinality(hist.dir0) = 2
    /\ Len(hist.runs) = 3
    /\ \A r \in Range(hist.runs) : r.msg = "done"
    /\ Cardinality(DOMAIN dir) >= 6

\* C15: the files written by one backup run are written by no other run, and
\* no file that was in the directory at construction is written again.
C15_NoOverwriteBetweenRuns ==
    /\ \A i, j \in 1..Len(hist.runs) :
          i < j => hist.runs[i].wrote \cap hist.runs[j].wrote = {}
    /\ \A i \in 1..Len(hist.runs) : hist.runs[i].wrote \cap hist.dir0 = {}

\* the condition under which the constructor starts the timer
AutoBackupConfigured == config.autoBackup /\ config.interval > 0

\* C16: until dispose the timer is active exactly when config.autoBackup is
\* true and config.interval > 0; its period is config.interval hours, so the
\* k-th periodic run starts k * interval hours after the construction; and
\* when the condition is false no periodic run ever starts.
C16_SchedulerStartCondition ==
    /\ sched.disposes = 0
          => (sched.timer.backupTimer = "set" <=> AutoBackupConfigured)
    /\ \A k \in 1..Len(sched.firedAt) :
          sched.firedAt[k] = Millis(k * config.interval * 3600, 0)
    /\ ~AutoBackupConfigured => sched.firedAt = <<>> /\ hist.runs = <<>>

\* no error has left the callback, the timer is active unless disposed, and
\* every run was started by a tick of its own
TimerSurvives ==
    /\ ~sched.escaped
    /\ sched.disposes = 0 /\ AutoBackupConfigured
          => sched.timer.backupTimer = "set"
    /\ Len(hist.runs) + Len(sched.inflight) = Len(sched.firedAt)

\* a periodic run has just returned after a call of its failed, k ticks have
\* fired, and the behaviour may still reach the next tick
FailedAfterTicks(k) ==
    /\ last.op = "tick" /\ last.faults # {}
    /\ Len(sched.firedAt) = k
    /\ sched.timer.backupTimer = "set"
    /\ sched.now = Due \/ sched.advances < MaxAdvances

\* C17: whatever call fails during a periodic run, no error leaves the
\* callback of the timer, the timer stays active, no run is started but by a
\* tick, and after the failed run the timer fires again unless it is disposed.
C17_TimerSurvivesFailedRuns ==
    /\ []TimerSurvives
    /\ \A k \in 1..MaxAdvances :
          FailedAfterTicks(k)
             ~> (Len(sched.firedAt) > k \/ sched.timer.backupTimer = "null")

\* the first periodic run fails and returns, then the timer fires again and
\* the second run writes its backup
C17_Witness ==
    /\ Len(hist.runs) = 2
    /\ hist.runs[1].msg = "failed" /\ hist.runs[1].faults # {}
    /\ hist.runs[1].fired = 1
    /\ hist.runs[2].msg = "done" /\ hist.runs[2].wrote # {}
    /\ sched.timer.backupTimer = "set"

\* after dispose the handle is null and no tick has fired since; a dispose
\* without timer changes nothing and does not fail; no run in flight is lost
Disposed ==
    /\ sched.disposes > 0
          => /\ sched.timer.backupTimer = "null"
             /\ Len(sched.firedAt) = sched.firedAtDispose
    /\ last.op = "dispose" /\ (sched.disposes > 1 \/ ~AutoBackupConfigured)
          => ~last.changed /\ ~last.rejected
    /\ Len(hist.runs) + Len(sched.inflight) = Len(sched.firedAt)

\* C18: after dispose() the timer handle is null and no periodic run starts
\* any more; dispose() without an active timer, or a second time, changes
\* nothing and does not fail; and the runs in flight when dispose() is called
\* are not cancelled: each of them returns.
C18_DisposeStopsSchedule ==
    /\ []Disposed
    /\ (sched.disposes > 0 /\ sched.inflight # <<>>) ~> (sched.inflight = <<>>)

\* a run that was in flight at the first dispose returns, having written its
\* files, after the second dispose
C18_Witness ==
    /\ sched.disposes = 2
    /\ last.op = "tick" /\ last.msg = "done" /\ DOMAIN last.wrote # {}
    /\ last.prev.op = "dispose"
    /\ Len(sched.firedAt) = sched.firedAtDispose

\* the UTF-16 code unit of a character
CodeUnit ==
    [c \in Alphabet |->
        CASE c = "_" -> 95
          [] c = "." -> 46
          [] IsDigit(c) -> 48 + DigitOf(c)
          [] c = "U" -> 85
          [] c = "C" -> 67
          [] OTHER -> 96 + (CHOOSE i \in 1..26 : Letters[i] = c)]

\* x is lexicographically smaller than y
LexLess(x, y) == CompareFrom(CodeUnit, x, y, 1) < 0

\* C19: the strings getTimestamp returns at two instants t1 < t2 of different
\* seconds are in lexicographic order, the one of t1 first, and both are 15
\* characters long.
C19_TimestampOrder ==
    stamp.pc = "done" =>
        /\ LexLess(stamp.s1, stamp.s2)
        /\ Len(stamp.s1) = 15
        /\ Len(stamp.s2) = 15

\* the timestamps of the files whose names match the pattern of the mode
CataloguedStamps ==
    IF config.singleFile
    THEN {SingleFileMatch(f).timestamp : f \in {g \in DOMAIN dir : SingleFileMatch(g).ok}}
    ELSE {TableFileMatch(f).timestamp : f \in {g \in DOMAIN dir : TableFileMatch(g).ok}}

\* C20: in both modes the list of listBackups is strictly descending by
\* timestamp string; its timestamps are those of the files that match the
\* pattern of the mode, so other files contribute no entry; and a restore with
\* index 1 takes the first entry, whose timestamp is the greatest catalogued.
C20_CatalogOrder ==
    \A backups \in {listBackups(dir, config, {})} :
        /\ \A i, j \in 1..Len(backups) :
              i < j => LexLess(backups[j].timestamp, backups[i].timestamp)
        /\ {backups[i].timestamp : i \in 1..Len(backups)} = CataloguedStamps
        /\ last.op = "restore" /\ last.index = <<"1">> /\ backups # <<>>
              => /\ last.target = backups[1]
                 /\ \A s \in CataloguedStamps :
                       s = last.target.timestamp
                       \/ LexLess(s, last.target.timestamp)

\* a restore with index 1 in single-file mode, from a directory with three
\* single-file backups, table files and a file that matches neither pattern
C20_Witness ==
    /\ config.singleFile
    /\ last.op = "restore" /\ last.index = <<"1">>
    /\ Len(last.backups) = 3
    /\ last.target.timestamp = LegacyStamp
    /\ NotesFile \in DOMAIN dir
    /\ TableFileName(LegacyStamp, Ta) \in DOMAIN dir

\* the tables on which an upsert completed during the last restore
UpsertedTables == {last.upserts[i].table : i \in 1..Len(last.upserts)}

\* C21: the list restoreBackup returns holds exactly the tables on which an
\* upsert completed during the call, whatever read, parse or upsert failed.
C21_RestoreReportsWhatItWrote ==
    last.op = "restore" => Range(last.restored) = UpsertedTables

\* the table files the last restore, of multi-file mode, had to restore
FilesToRestore ==
    IF last.arg = <<>>
    THEN {f \in DOMAIN dir : TimestampFileMatch(last.target.timestamp, f)}
    ELSE {TableFileName(last.target.timestamp, t) : t \in Range(last.arg)}
            \cap DOMAIN dir

\* reading, parsing and upserting the table file succeeds
FileRestorable(f) ==
    /\ <<"read", f>> \notin last.faults
    /\ dir[f].kind = "array" /\ dir[f].rows # <<>>
    /\ TableFileMatch(f).table \in DOMAIN db
    /\ <<"upsert", TableFileMatch(f).table>> \notin last.faults

\* the restore reached the loop over the table files
RestoredFromFiles ==
    /\ last.op = "restore" /\ ~config.singleFile
    /\ last.target # NoTarget
    /\ \A p \in last.faults : p[1] \in {"read", "upsert"}

\* C22: in multi-file mode a table file that cannot be read, parsed or
\* upserted is skipped and every other table file of the artifact is still
\* restored: the returned list holds exactly the tables whose file could be
\* read, parsed and upserted, and each of them was upserted once.
C22_PerFileIsolationOnRestore ==
    RestoredFromFiles =>
        /\ Range(last.restored)
              = {TableFileMatch(f).table : f \in {g \in FilesToRestore : FileRestorable(g)}}
        /\ UpsertedTables = Range(last.restored)
        /\ Len(last.upserts) = Cardinality(UpsertedTables)
        /\ last.msg # "failed"

\* the file of b cannot be upserted, the file of a before it and the file of
\* c after it are restored
C22_Witness ==
    /\ RestoredFromFiles /\ last.arg = <<>>
    /\ \A t \in {Ta, Tb, Tc} :
          /\ TableFileName(last.target.timestamp, t) \in DOMAIN dir
          /\ dir[TableFileName(last.target.timestamp, t)].kind = "array"
          /\ dir[TableFileName(last.target.timestamp, t)].rows # <<>>
    /\ Range(last.restored) = {Ta, Tc}
    /\ db[Ta] # <<Row1>> /\ db[Tc] # <<Row1>>

\* C23: the retention sweep of a backup run runs exactly when the run wrote
\* its backup with keepBackups > 0 and at least one table resolved; it starts
\* on a directory that holds every file the run wrote and deletes files of
\* that directory only; a run that ends with the failure message, or without
\* tables, sweeps nothing.
C23_WriterBeforeSweeper ==
    last.op = "backup" =>
        /\ last.swept <=> /\ config.keepBackups > 0
                          /\ last.tables # <<>>
                          /\ last.msg = "done"
        /\ last.swept => /\ DOMAIN last.wrote \subseteq last.before
                         /\ last.deleted \subseteq last.before
        /\ ~last.swept => last.deleted = {}
        /\ last.msg \in {"failed", "notables"} => ~last.swept /\ last.deleted = {}

\* a run whose sweep deleted files after the run had written its own, of
\* which a fetch had failed
C23_Witness ==
    /\ last.op = "backup" /\ last.swept
    /\ last.faults # {} /\ last.failed # <<>>
    /\ DOMAIN last.wrote # {}
    /\ last.deleted # {}

\* what one step may do to the files of the backup directory
ArtifactFrame ==
    /\ last'.op = "backup" =>
          /\ DOMAIN dir' \ DOMAIN dir \subseteq DOMAIN last'.wrote
          /\ \A f \in DOMAIN dir \cap DOMAIN dir' :
                dir'[f] # dir[f] => f \in DOMAIN last'.wrote
          /\ DOMAIN dir \ DOMAIN dir' \subseteq last'.deleted
          /\ \A f \in last'.deleted : StartsWith(f, BackupPrefix)
    /\ last'.op # "backup" => dir' = dir

\* C24: performRestore, and listBackups within it, leave every file of the
\* backup directory as it is; a backup run creates or replaces only the files
\* backupTables writes and removes only the files cleanupOldBackups deletes,
\* whose names all begin with backup_.
C24_ArtifactLifecycleFrame == [][ArtifactFrame]_vars

\* a backup run after a restore has swept files and left the operator's file
\* whose name does not begin with backup_
C24_Witness ==
    /\ last.op = "backup" /\ last.prev.op = "restore"
    /\ last.deleted # {}
    /\ ArchiveFile \in DOMAIN dir

\* the name matches some live table up to case
MatchesLive(t) == \E u \in DOMAIN db : ToLowerCase(u) = ToLowerCase(t)

UnknownSpecials == {t \in Range(config.tables) : ~MatchesLive(t)}

\* the tables of which the fetch, or the write of the table file, was made
\* to fail in the last run
FaultedTables ==
    {t \in Range(last.tables) :
        \/ <<"get", t>> \in last.faults
        \/ <<"write", TableFileName(last.timestamp, t)>> \in last.faults}

\* the run of all tables got as far as the result of backupTables
BackedUpAll ==
    /\ last.op = "backup" /\ last.arg = <<>>
    /\ \A p \in last.faults :
          /\ p[1] \notin {"mkdir", "stats"}
          /\ config.singleFile => p[1] # "write"

\* C26: a special table that matches no live table is in the backup set
\* under its literal name; its fetch fails and the table is reported as
\* failed, it alone besides the tables of which a call was made to fail;
\* every other table is backed up and the run returns the completion message.
C26_UnknownSpecialBestEffort ==
    BackedUpAll =>
        /\ UnknownSpecials \subseteq Range(last.tables)
        /\ DOMAIN db \subseteq Range(last.tables)
        /\ Range(last.failed) = UnknownSpecials \cup FaultedTables
        /\ last.ok = Cardinality(Range(last.tables) \ Range(last.failed))
        /\ last.msg = "done"
        /\ IF config.singleFile
           THEN /\ DOMAIN last.wrote = {SingleFileName(last.timestamp)}
                /\ {last.wrote[SingleFileName(last.timestamp)].entries[i].key :
                       i \in 1..Len(last.wrote[SingleFileName(last.timestamp)].entries)}
                      = Range(last.tables) \ Range(last.failed)
           ELSE DOMAIN last.wrote
                   = {TableFileName(last.timestamp, t) :
                         t \in Range(last.tables) \ Range(last.failed)}

\* the special table x is unknown: the run without any other failure reports
\* x as failed and backs up the live tables a and b
C26_Witness ==
    /\ BackedUpAll /\ last.faults = {}
    /\ config.tables = <<Tb, Tx>>
    /\ last.tables = <<Ta, Tb, Tx>> \/ last.tables = <<Tb, Ta, Tx>>
    /\ last.failed = <<Tx>>
    /\ last.ok = 2 /\ last.msg = "done"

\* the keys of the single file of the target whose value is a non-empty array
NonEmptyArrayKeys ==
    {e.key : e \in {x \in Range(dir[SingleFileName(last.target.timestamp)].entries) :
                       /\ x.rows # <<>>
                       /\ x.key \notin dir[SingleFileName(last.target.timestamp)].scalars}}

\* the restore, of single-file mode, read and parsed the file of its target
RestoredFromSingleFile ==
    /\ last.op = "restore" /\ config.singleFile
    /\ last.target # NoTarget
    /\ \A p \in last.faults : p[1] = "upsert"
    /\ dir[SingleFileName(last.target.timestamp)].kind = "object"

\* the tables the last restore, of single-file mode, has to upsert
TablesToUpsert ==
    IF last.arg # <<>> THEN NonEmptyArrayKeys \cap Range(last.arg)
    ELSE NonEmptyArrayKeys

\* C27: in single-file mode upsert is applied exactly to the requested
\* tables that are keys of the file with a non-empty array, or without a
\* subset to every key with a non-empty array: no other table is upserted,
\* none twice, and each of these tables whose upsert does not fail itself is
\* upserted.
C27_SingleFileRestoreSelection ==
    RestoredFromSingleFile =>
        /\ UpsertedTables \subseteq TablesToUpsert
        /\ Len(last.upserts) = Cardinality(UpsertedTables)
        /\ \A t \in TablesToUpsert :
              (t \in DOMAIN db /\ <<"upsert", t>> \notin last.faults)
                 => t \in UpsertedTables


(***************************************************************************)
(* C28: the accounting of a backup run.                                    *)
(***************************************************************************)
\* the tables of the last run whose fetch, and in multi-file mode whose
\* write, did not fail
FetchedAndWritten ==
    {t \in Range(last.tables) :
        /\ ~GetFails(db, t, last.faults)
        /\ config.singleFile \/ ~WriteFails(TableFileName(last.timestamp, t), last.faults)}

BackupReported == last.op = "backup" /\ last.msg = "done"

\* C28: for every backup run that reports a result, the success count plus
\* the number of failed tables is the number of attempted tables and no table
\* is both a success and failed; in multi-file mode the file
\* backup_<timestamp>_<table>.json exists after the run exactly for the tables
\* whose fetch and write both succeeded.
C28_BackupAccounting ==
    BackupReported =>
        /\ last.ok + Len(last.failed) = Len(last.tables)
        /\ Range(last.failed) \cap FetchedAndWritten = {}
        /\ Range(last.failed) \cup FetchedAndWritten = Range(last.tables)
        /\ ~config.singleFile =>
              \A t \in Range(last.tables) :
                  TableFileName(last.timestamp, t) \in DOMAIN dir
                      <=> t \in FetchedAndWritten

\* the part of C28 about the result and about the files the run writes
C28_AccountingOfWrites ==
    BackupReported =>
        /\ last.ok + Len(last.failed) = Len(last.tables)
        /\ Range(last.failed) \cap FetchedAndWritten = {}
        /\ Range(last.failed) \cup FetchedAndWritten = Range(last.tables)
        /\ ~config.singleFile =>
              DOMAIN last.wrote =
                  {TableFileName(last.timestamp, t) : t \in FetchedAndWritten}


(***************************************************************************)
(* C29: the sweep of a run and the files of the same run.                  *)
(***************************************************************************)
\* C29: for every keepBackups >= 1, in both modes, when performBackup returns
\* the completion message every file written by that run still exists in the
\* backup directory.
C29_OwnFilesSurviveSweep ==
    (BackupReported /\ config.keepBackups >= 1) =>
        DOMAIN last.wrote \subseteq DOMAIN dir


(***************************************************************************)
(* C30: the timer of an instance.                                          *)
(***************************************************************************)
\* at most one interval is active, the handle is set exactly when one is, and
\* setupAutoBackup called now would leave exactly one
OneTimer ==
    /\ sched.timer.intervals <= 1
    /\ sched.timer.backupTimer # "null" <=> sched.timer.intervals = 1
    /\ \A hours \in Intervals :
          /\ setupAutoBackup(sched.timer, hours).intervals = 1
          /\ setupAutoBackup(sched.timer, hours).backupTimer # "null"

\* a step that takes the timer away is a dispose
OnlyDisposeStops ==
    (sched.timer.intervals > 0 /\ sched'.timer.intervals = 0)
    \/ (sched.timer.backupTimer # "null" /\ sched'.timer.backupTimer = "null")
        => last'.op = "dispose" /\ last'.n = last.n + 1

\* C30: in every reachable state an instance owns at most one active interval
\* timer; backupTimer is non-null exactly when that timer is active;
\* setupAutoBackup clears any previous timer before it starts a new one; and
\* dispose is the only operation that leaves the instance with no timer.
C30_SingleTimer == []OneTimer /\ [][OnlyDisposeStops]_vars

\* the timer has fired twice and was then stopped by dispose
C30_Witness ==
    /\ AutoBackupConfigured
    /\ Len(sched.firedAt) = 2
    /\ last.op = "dispose" /\ last.changed
    /\ sched.timer.intervals = 0 /\ sched.timer.backupTimer = "null"

====
